---- MODULE Spec2Model ----
(***************************************************************************)
(* Model of the classification-and-reconciliation pipeline of              *)
(* Paperless-KIplus (custom_components/paperless_kiplus/                   *)
(* paperless_ai_sorter.py): process_documents and the functions it calls.  *)
(*                                                                         *)
(* Conventions                                                             *)
(*  - a JSON null / Python None entity id is 0 (NoId); store ids are >= 1. *)
(*  - a patch payload is a function whose domain is the set of fields it   *)
(*    carries; the empty payload {} is <<>>.                               *)
(*  - a tags value (the code's sorted list of distinct ids) is a set.      *)
(*  - confidence is counted in tenths (7 = 0.70).                          *)
(*  - time is epoch seconds; the clock moves in steps of one hour.         *)
(***************************************************************************)
EXTENDS Integers, Sequences, FiniteSets, TLC

\* ------------------------------------------------------------------ bounds
\* Number of runs of process_documents in one behaviour.
MaxRuns == 2
\* The clock stops after this many hours.
MaxHours == 2

\* ------------------------------------------------------- program constants
NoId == 0
SecondsPerHour == 3600
ConfidenceThreshold == 7
ConfidenceMax == 10

\* Documents of the store, in the order iter_documents yields them.
Docs == {1, 2}
NumDocs == Cardinality(Docs)

Fields == {"document_type", "correspondent", "storage_path", "created", "tags"}
IdFields == {"document_type", "correspondent", "storage_path"}

Max(a, b) == IF a >= b THEN a ELSE b

\* The part of a payload that lies in the fields S (dict minus popped keys).
Restrict(p, S) == [k \in (DOMAIN p) \cap S |-> p[k]]
\* dict(p) with p[k] = v set.
SetField(p, k, v) == (k :> v) @@ Restrict(p, (DOMAIN p) \ {k})
EmptyPatch == <<>>

\* ------------------------------------------------------------ label tables
\* name.strip().lower() on the labels that occur in the model.
Norm(name) ==
    CASE name = "KI" -> "ki"
      [] name = "KI_FEHLER" -> "ki_fehler"
      [] name = "#NEU" -> "#neu"
      [] name = "A" -> "a"
      [] name = " a " -> "a"
      [] name = "B" -> "b"
      [] name = "Invoice" -> "invoice"
      [] name = "Privat" -> "privat"
      [] name = "Missing" -> "missing"
      [] name = "  " -> ""
      [] OTHER -> name

\* The id the store has (or assigns on creation) for a normalised label.
EntityId(key) ==
    CASE key = "ki" -> 1
      [] key = "#neu" -> 2
      [] key = "a" -> 3
      [] key = "ki_fehler" -> 4
      [] key = "b" -> 5
      [] key = "invoice" -> 1
      [] key = "privat" -> 1
      [] OTHER -> 9

KiId == EntityId("ki")
NeuId == EntityId("#neu")
AId == EntityId("a")

\* ---------------------------------------------------------- pure functions
normalize_iso_date(value) ==
    CASE value = "" -> ""
      [] value = "  " -> ""
      [] value = "2024-01-01" -> "2024-01-01"
      [] value = "2024-01-01T08:30:00+00:00" -> "2024-01-01"
      [] value = "2024-02-02T10:00:00" -> "2024-02-02"
      [] value = "2024-02-02" -> "2024-02-02"
      [] OTHER -> ""

\* sanitize_prediction that keeps every proposed correspondent.
sanitize_prediction_Keep(prediction, storage_paths_map) == prediction

sanitize_prediction(prediction, storage_paths_map) ==
    IF /\ Norm(prediction.correspondent) # ""
       /\ Norm(prediction.correspondent) \in storage_paths_map
    THEN [prediction EXCEPT !.correspondent = ""]
    ELSE prediction

\* ensure_entity_id that forgets a created entity.
ensure_entity_id_NoInsert(mapping, name, create_missing, createOk) ==
    IF name = "" \/ Norm(name) = ""
    THEN [raised |-> FALSE, id |-> NoId, mapping |-> mapping, posts |-> 0]
    ELSE IF Norm(name) \in mapping
    THEN [raised |-> FALSE, id |-> EntityId(Norm(name)), mapping |-> mapping, posts |-> 0]
    ELSE IF ~create_missing
    THEN [raised |-> FALSE, id |-> NoId, mapping |-> mapping, posts |-> 0]
    ELSE IF createOk
    THEN [raised |-> FALSE, id |-> EntityId(Norm(name)), mapping |-> mapping, posts |-> 1]
    ELSE [raised |-> TRUE, id |-> NoId, mapping |-> mapping, posts |-> 1]

\* ensure_entity_id: createOk is the store's answer to a creation request.
ensure_entity_id(mapping, name, create_missing, createOk) ==
    IF name = "" \/ Norm(name) = ""
    THEN [raised |-> FALSE, id |-> NoId, mapping |-> mapping, posts |-> 0]
    ELSE IF Norm(name) \in mapping
    THEN [raised |-> FALSE, id |-> EntityId(Norm(name)), mapping |-> mapping, posts |-> 0]
    ELSE IF ~create_missing
    THEN [raised |-> FALSE, id |-> NoId, mapping |-> mapping, posts |-> 0]
    ELSE IF createOk
    THEN [raised |-> FALSE, id |-> EntityId(Norm(name)),
          mapping |-> mapping \cup {Norm(name)}, posts |-> 1]
    ELSE [raised |-> TRUE, id |-> NoId, mapping |-> mapping, posts |-> 1]

\* The tag loop of build_patch_payload over the labels names[i..].
RECURSIVE ResolveTags(_, _, _, _, _)
ResolveTags(mapping, names, i, create_missing, createOk) ==
    IF i > Len(names)
    THEN [raised |-> FALSE, ids |-> {}, mapping |-> mapping, posts |-> 0]
    ELSE LET r == ensure_entity_id(mapping, names[i], create_missing, createOk)
         IN IF r.raised
            THEN [raised |-> TRUE, ids |-> {}, mapping |-> r.mapping, posts |-> r.posts]
            ELSE LET rest == ResolveTags(r.mapping, names, i + 1, create_missing, createOk)
                 IN [raised |-> rest.raised,
                     ids |-> (IF r.id # NoId THEN {r.id} ELSE {}) \cup rest.ids,
                     mapping |-> rest.mapping,
                     posts |-> r.posts + rest.posts]

\* build_patch_payload: the payload, the mappings after the creations, and
\* whether a creation raised PaperlessApiError.
build_patch_payload(prediction, maps, create_missing, createOk) ==
    LET t == ensure_entity_id(maps.document_types, prediction.document_type,
                              create_missing, createOk)
        c == ensure_entity_id(maps.correspondents, prediction.correspondent,
                              create_missing, createOk)
        s == ensure_entity_id(maps.storage_paths, prediction.storage_path,
                              create_missing, createOk)
        g == ResolveTags(maps.tags, prediction.tags, 1, create_missing, createOk)
        date == normalize_iso_date(prediction.document_date)
        p1 == IF t.id # NoId THEN ("document_type" :> t.id) ELSE EmptyPatch
        p2 == IF c.id # NoId THEN SetField(p1, "correspondent", c.id) ELSE p1
        p3 == IF s.id # NoId THEN SetField(p2, "storage_path", s.id) ELSE p2
        p4 == IF g.ids # {} THEN SetField(p3, "tags", g.ids) ELSE p3
        p5 == IF date # "" THEN SetField(p4, "created", date) ELSE p4
    IN  IF t.raised
        THEN [raised |-> TRUE, payload |-> EmptyPatch, maps |-> maps, posts |-> t.posts]
        ELSE IF c.raised
        THEN [raised |-> TRUE, payload |-> EmptyPatch,
              maps |-> [maps EXCEPT !.document_types = t.mapping],
              posts |-> t.posts + c.posts]
        ELSE IF s.raised
        THEN [raised |-> TRUE, payload |-> EmptyPatch,
              maps |-> [maps EXCEPT !.document_types = t.mapping,
                                    !.correspondents = c.mapping],
              posts |-> t.posts + c.posts + s.posts]
        ELSE [raised |-> g.raised,
              payload |-> IF g.raised THEN EmptyPatch ELSE p5,
              maps |-> [document_types |-> t.mapping, correspondents |-> c.mapping,
                        storage_paths |-> s.mapping, tags |-> g.mapping],
              posts |-> t.posts + c.posts + s.posts + g.posts]

PatchTags(patch_payload) ==
    IF "tags" \in DOMAIN patch_payload THEN patch_payload["tags"] ELSE {}

apply_forced_tag_rules(patch_payload, current_tag_ids, ki_tag_id, remove_neu_tag_id) ==
    LET merged == current_tag_ids \cup PatchTags(patch_payload)
        noNeu == IF remove_neu_tag_id # NoId THEN merged \ {remove_neu_tag_id} ELSE merged
        final_tag_ids == IF ki_tag_id # NoId THEN noNeu \cup {ki_tag_id} ELSE noNeu
    IN  IF final_tag_ids # current_tag_ids
        THEN SetField(patch_payload, "tags", final_tag_ids)
        ELSE patch_payload

\* One field of the patch equals the document's current value.
FieldUnchanged(document, patch_payload, k) ==
    CASE k = "tags" -> document.tags = patch_payload[k]
      [] k = "created" ->
            normalize_iso_date(document.created) = normalize_iso_date(patch_payload[k])
      [] OTHER -> document[k] = patch_payload[k]

\* filter_unchanged_patch_fields that also rewrites the date it keeps.
filter_unchanged_patch_fields_Normalizing(document, patch_payload) ==
    [k \in {f \in DOMAIN patch_payload : ~FieldUnchanged(document, patch_payload, f)} |->
        IF k = "created" THEN normalize_iso_date(patch_payload[k]) ELSE patch_payload[k]]

filter_unchanged_patch_fields(document, patch_payload) ==
    Restrict(patch_payload,
             {k \in DOMAIN patch_payload : ~FieldUnchanged(document, patch_payload, k)})

should_process_document(document) ==
    ~(document.document_type # NoId /\ document.tags # {})

\* ------------------------------------------------------ document store API
\* The default of the retries parameter of _request.
DefaultRetries == 3

\* What one HTTP attempt can meet: a transport error (RequestException), or a
\* response with a status and a body that is empty, JSON, or not parseable.
Answers ==
    { [kind |-> "transport", status |-> 0, content |-> "empty"] }
    \cup { [kind |-> "response", status |-> st, content |-> c] :
             st \in {200, 400, 500}, c \in {"empty", "json", "garbage"} }

\* str(exc) of the exception an attempt ends with, "None" if it returned.
AttemptError(answer) ==
    IF answer.kind = "transport" THEN "RequestException"
    ELSE IF answer.status >= 400
    THEN (CASE answer.status = 400 -> "HTTP 400"
            [] answer.status = 500 -> "HTTP 500"
            [] OTHER -> "HTTP error")
    ELSE IF answer.content = "garbage" THEN "ValueError"
    ELSE "None"

\* The loop of _request from attempt number attempt on: the attempts made,
\* whether PaperlessApiError was raised, the value returned, and the last
\* error the raised exception names.
RECURSIVE RequestLoop(_, _, _, _)
RequestLoop(answers, retries, attempt, last_error) ==
    IF attempt > retries
    THEN [attempts |-> attempt - 1, raised |-> TRUE, result |-> "none",
          last_error |-> last_error]
    ELSE IF AttemptError(answers[attempt]) = "None"
    THEN [attempts |-> attempt, raised |-> FALSE,
          result |-> IF answers[attempt].content = "empty" THEN "{}" ELSE "json",
          last_error |-> "None"]
    ELSE RequestLoop(answers, retries, attempt + 1, AttemptError(answers[attempt]))

\* _request giving up after its first attempt.
request_Once(answers, retries) == RequestLoop(answers, 1, 1, "None")

\* PaperlessClient._request, for the answers its attempts would get.
request(answers, retries) == RequestLoop(answers, retries, 1, "None")

\* No call of _request under observation.
NoCall ==
    [pc |-> "none", retries |-> 0, answers |-> << >>,
     outcome |-> [attempts |-> 0, raised |-> FALSE, result |-> "none",
                  last_error |-> "None"]]

\* How the store answers the requests of one document step: a request whose
\* payload carries a field of srv.bad is answered with srv.status.
ServerModes ==
    { [status |-> 200, bad |-> {}],
      [status |-> 500, bad |-> {"tags"}],
      [status |-> 500, bad |-> {"document_type"}],
      [status |-> 500, bad |-> Fields],
      [status |-> 400, bad |-> Fields] }

\* PaperlessClient._request: every attempt gets the same answer, so the call
\* raises PaperlessApiError exactly when the store rejects the payload.
RequestFails(payload, srv) ==
    srv.status >= 400 /\ (DOMAIN payload) \cap srv.bad # {}

\* "HTTP 500" in str(exc) for the error raised by a failed request.
ErrorSaysHttp500(srv) == srv.status = 500

fallback_candidates(patch_payload) ==
    (IF "created" \in DOMAIN patch_payload
     THEN << Restrict(patch_payload, Fields \ {"created"}) >> ELSE << >>)
    \o (IF "tags" \in DOMAIN patch_payload
        THEN << Restrict(patch_payload, Fields \ {"tags"}) >> ELSE << >>)
    \o (IF "created" \in DOMAIN patch_payload /\ "tags" \in DOMAIN patch_payload
        THEN << Restrict(patch_payload, Fields \ {"created", "tags"}) >> ELSE << >>)

\* The fallback loop of update_document from candidate i on.
RECURSIVE TryFallbacks(_, _, _, _)
TryFallbacks(cands, i, tried, srv) ==
    IF i > Len(cands)
    THEN [ok |-> FALSE, applied |-> EmptyPatch, sent |-> << >>]
    ELSE IF cands[i] = EmptyPatch \/ cands[i] \in tried
    THEN TryFallbacks(cands, i + 1, tried, srv)
    ELSE IF ~RequestFails(cands[i], srv)
    THEN [ok |-> TRUE, applied |-> cands[i], sent |-> << cands[i] >>]
    ELSE LET rest == TryFallbacks(cands, i + 1, tried \cup {cands[i]}, srv)
         IN [rest EXCEPT !.sent = << cands[i] >> \o rest.sent]

\* The fields of field_order from tags to document_type.
field_order_Reversed == << "tags", "created", "storage_path", "correspondent", "document_type" >>

field_order == << "document_type", "correspondent", "storage_path", "created", "tags" >>

\* The field-by-field loop of update_document from field i on.
RECURSIVE TryFields(_, _, _)
TryFields(patch_payload, i, srv) ==
    IF i > Len(field_order)
    THEN [applied |-> EmptyPatch, sent |-> << >>, field_failures |-> << >>]
    ELSE LET key == field_order[i]
             rest == TryFields(patch_payload, i + 1, srv)
             single_payload == Restrict(patch_payload, {key})
         IN IF key \notin DOMAIN patch_payload
            THEN rest
            ELSE IF RequestFails(single_payload, srv)
            THEN [rest EXCEPT !.sent = << single_payload >> \o rest.sent,
                              !.field_failures = << key >> \o rest.field_failures]
            ELSE [rest EXCEPT !.sent = << single_payload >> \o rest.sent,
                              !.applied = single_payload @@ rest.applied]

\* update_document raising whenever the full patch was refused, whatever the
\* fallback and single-field requests achieve.
update_document_Strict(patch_payload, srv) ==
    IF ~RequestFails(patch_payload, srv)
    THEN [ok |-> TRUE, applied |-> patch_payload, sent |-> << patch_payload >>,
          feldTags |-> FALSE]
    ELSE IF ~ErrorSaysHttp500(srv)
    THEN [ok |-> FALSE, applied |-> EmptyPatch, sent |-> << patch_payload >>,
          feldTags |-> FALSE]
    ELSE [ok |-> FALSE, applied |-> EmptyPatch,
          sent |-> << patch_payload >>
                   \o TryFallbacks(fallback_candidates(patch_payload), 1, {}, srv).sent
                   \o (IF TryFallbacks(fallback_candidates(patch_payload), 1, {}, srv).ok
                       THEN << >> ELSE TryFields(patch_payload, 1, srv).sent),
          feldTags |-> FALSE]

\* update_document: ok = returned without raising; applied = the fields the
\* store accepted; sent = the PATCH payloads in the order they were sent;
\* feldTags = the raised error text contains "Feldanalyse: tags:".
update_document(patch_payload, srv) ==
    IF ~RequestFails(patch_payload, srv)
    THEN [ok |-> TRUE, applied |-> patch_payload, sent |-> << patch_payload >>,
          feldTags |-> FALSE]
    ELSE IF ~ErrorSaysHttp500(srv)
    THEN [ok |-> FALSE, applied |-> EmptyPatch, sent |-> << patch_payload >>,
          feldTags |-> FALSE]
    ELSE LET fb == TryFallbacks(fallback_candidates(patch_payload), 1, {}, srv)
             ff == TryFields(patch_payload, 1, srv)
         IN IF fb.ok
            THEN [ok |-> TRUE, applied |-> fb.applied,
                  sent |-> << patch_payload >> \o fb.sent, feldTags |-> FALSE]
            ELSE [ok |-> ff.applied # EmptyPatch,
                  applied |-> ff.applied,
                  sent |-> << patch_payload >> \o fb.sent \o ff.sent,
                  feldTags |-> /\ ff.applied = EmptyPatch
                               /\ ff.field_failures # << >>
                               /\ Head(ff.field_failures) = "tags"]

\* The document after the store applied the accepted fields.
ApplyPatch(document, applied) ==
    [k \in DOMAIN document |-> IF k \in DOMAIN applied THEN applied[k] ELSE document[k]]


\* ------------------------------------------------------- classifier answers
\* The shape of a parsed JSON body: the required keys it lacks, whether tags
\* is a list, and what kind of value confidence, document_date and summary are.
WellFormed ==
    [missing |-> {}, tags_is_list |-> TRUE, confidence_is |-> "number",
     date_is |-> "string", summary_is |-> "string"]

\* A body with the content of an accepted prediction.
Plain ==
    [document_type |-> "Invoice", correspondent |-> "", storage_path |-> "",
     tags |-> << "A" >>, document_date |-> "", confidence |-> 9]

\* The parsed JSON bodies the classification endpoint can return.
Predictions ==
    << [document_type |-> "Invoice", correspondent |-> "", storage_path |-> "",
        tags |-> << "A" >>, document_date |-> "", confidence |-> 9] @@ WellFormed,
       [document_type |-> "", correspondent |-> "", storage_path |-> "",
        tags |-> << "A" >>, document_date |-> "", confidence |-> 7] @@ WellFormed,
       [document_type |-> "Invoice", correspondent |-> "", storage_path |-> "",
        tags |-> << "A" >>, document_date |-> "", confidence |-> 5] @@ WellFormed,
       [document_type |-> "", correspondent |-> "", storage_path |-> "",
        tags |-> << >>, document_date |-> "garbage", confidence |-> 10] @@ WellFormed,
       [document_type |-> "Invoice", correspondent |-> "Privat", storage_path |-> "Privat",
        tags |-> << "B", " a " >>, document_date |-> "2024-02-02T10:00:00",
        confidence |-> 10] @@ WellFormed,
       [document_type |-> "Invoice", correspondent |-> "", storage_path |-> "",
        tags |-> << "A" >>, document_date |-> "", confidence |-> 15] @@ WellFormed,
       Plain @@ [WellFormed EXCEPT !.missing = {"storage_path"}],
       Plain @@ [WellFormed EXCEPT !.tags_is_list = FALSE],
       Plain @@ [WellFormed EXCEPT !.date_is = "other"],
       Plain @@ [WellFormed EXCEPT !.summary_is = "other"],
       Plain @@ [WellFormed EXCEPT !.confidence_is = "text"],
       Plain @@ [WellFormed EXCEPT !.confidence_is = "null"],
       Plain @@ [WellFormed EXCEPT !.confidence_is = "null", !.date_is = "other"],
       Plain @@ [WellFormed EXCEPT !.confidence_is = "nan"] >>

\* 0 stands for a failed request or an unparseable body.
Responses == 0 .. Len(Predictions)

\* The answers whose body has every key with a value of the expected kind.
WellFormedResponses ==
    {r \in Responses : r = 0 \/ Restrict(Predictions[r], DOMAIN WellFormed) = WellFormed}

\* AiClassifier._validate_model_output, rule by rule in the order of the
\* code: "ok" when it returns, otherwise the exception it raises.
\* float(None) raises TypeError, float("high") raises ValueError; for NaN
\* (which json.loads accepts) both comparisons of line 596 are false.
validate_model_output(payload) ==
    IF payload.missing # {} THEN "AiClassificationError"
    ELSE IF ~payload.tags_is_list THEN "AiClassificationError"
    ELSE IF payload.confidence_is = "null" THEN "TypeError"
    ELSE IF payload.confidence_is = "text" THEN "ValueError"
    ELSE IF /\ payload.confidence_is # "nan"
            /\ payload.confidence < 0 \/ payload.confidence > ConfidenceMax
    THEN "AiClassificationError"
    ELSE IF payload.date_is = "other" THEN "AiClassificationError"
    ELSE IF payload.summary_is = "other" THEN "AiClassificationError"
    ELSE "ok"

\* AiClassifier.classify: "ok" when it returns a prediction, otherwise the
\* exception that leaves it.  The except clause of line 575 turns request
\* errors, KeyError and ValueError into AiClassificationError and lets every
\* other exception pass.
classify(resp) ==
    IF resp = 0 THEN "AiClassificationError"
    ELSE IF validate_model_output(Predictions[resp]) = "ValueError"
    THEN "AiClassificationError"
    ELSE validate_model_output(Predictions[resp])

\* AiClassifier.classify returns a prediction instead of raising.
\* A classifier whose usage counts only for confident predictions.
ClassifyOk_Confident(resp) ==
    classify(resp) = "ok" /\ Predictions[resp].confidence >= ConfidenceThreshold

ClassifyOk(resp) == classify(resp) = "ok"

\* ------------------------------------------------------------ configuration
CooldownHours == { << 0, 0 >>, << 1, 2 >>, << 1, 0 >> }

\* --all-documents with process_only_tag: the override, the heuristic, the
\* tag filter, and a filter tag the store does not know.
Modes == { << TRUE, "A" >>, << FALSE, "" >>, << FALSE, "A" >>, << FALSE, "Missing" >> }

\* The AppConfig records (with the --all-documents flag) built from the
\* given option values.
\* The default of min_remaining_tokens.
MinRemainingTokens == 1500

ConfigsOf(dry, quarantine, modes, create, hours, limits) ==
    { [dry_run |-> d, quarantine_failed_documents |-> q,
       process_all_documents |-> m[1], process_only_tag |-> m[2],
       create_missing_entities |-> c,
       failed_document_cooldown_hours |-> h[1],
       failed_tags_only_cooldown_hours |-> h[2],
       max_documents |-> l,
       enable_token_precheck |-> FALSE, min_remaining_tokens |-> MinRemainingTokens] :
      d \in dry, q \in quarantine, m \in modes, c \in create, h \in hours, l \in limits }

\* The options an installation keeps from one run to the next; dry_run (a CLI
\* flag) and the cooldown hours may differ between two runs.
SameInstallation(c1, c2) ==
    /\ c1.quarantine_failed_documents = c2.quarantine_failed_documents
    /\ c1.process_all_documents = c2.process_all_documents
    /\ c1.process_only_tag = c2.process_only_tag
    /\ c1.create_missing_entities = c2.create_missing_entities
    /\ c1.max_documents = c2.max_documents
    /\ c1.enable_token_precheck = c2.enable_token_precheck

\* The configuration shown before the first run.
DefaultConfig ==
    [dry_run |-> FALSE, quarantine_failed_documents |-> TRUE,
     process_all_documents |-> FALSE, process_only_tag |-> "",
     create_missing_entities |-> TRUE, failed_document_cooldown_hours |-> 1,
     failed_tags_only_cooldown_hours |-> 2, max_documents |-> NumDocs,
     enable_token_precheck |-> FALSE, min_remaining_tokens |-> MinRemainingTokens]

\* The same configurations with enable_token_precheck on or off.
WithPrecheck(configs) ==
    { [c EXCEPT !.enable_token_precheck = e] : c \in configs, e \in BOOLEAN }

\* What the probe request of the token precheck meets: a failed request, or a
\* response without the x-ratelimit-remaining-tokens header, with a header
\* that is no integer, or with the number of remaining tokens.
NoProbe == [fails |-> FALSE, header |-> "absent", remaining |-> 0]
Probes ==
    { [NoProbe EXCEPT !.fails = TRUE],
      NoProbe,
      [NoProbe EXCEPT !.header = "garbage"] }
    \cup { [NoProbe EXCEPT !.header = "number", !.remaining = r] :
             r \in {MinRemainingTokens - 1, MinRemainingTokens} }

\* preflight_token_budget that only logs the remaining tokens.
preflight_token_budget_LogOnly(c, probe) ==
    IF ~c.enable_token_precheck THEN "ok"
    ELSE IF probe.fails \/ probe.header = "garbage" THEN "AiClassificationError"
    ELSE "ok"

\* AiClassifier.preflight_token_budget: "ok" when it returns, otherwise the
\* exception it raises.
preflight_token_budget(c, probe) ==
    IF ~c.enable_token_precheck THEN "ok"
    ELSE IF probe.fails THEN "AiClassificationError"
    ELSE IF probe.header = "absent" THEN "ok"
    ELSE IF probe.header = "garbage" THEN "AiClassificationError"
    ELSE IF probe.remaining < c.min_remaining_tokens THEN "AiClassificationError"
    ELSE "ok"

\* Requests to the document store before the first entity is resolved:
\* preflight_check and the four list_named_entities calls.
StartupRequests == 5

\* -------------------------------------------------------------------- state
VARIABLES
    now,                  \* the wall clock, epoch seconds
    docs,                 \* the documents in the store
    entities,             \* per kind, the lower-cased labels the store knows
    fileFailed,           \* failed_documents_file: doc id -> retry-not-before
    fileCache,            \* failed_patch_cache_file: doc id -> patch payload
    pc,                   \* "idle" between runs, "scan" inside the document loop
    pos,                  \* the next document iter_documents yields
    runs,                 \* runs of process_documents started so far
    cfg,                  \* the AppConfig of the current (or last) run
    failed_docs_until,    \* in-memory quarantine records of the run
    failed_patch_cache,   \* in-memory patch cache of the run
    tagIds,               \* ki_tag_id, error_tag_id, remove_neu_tag_id, only_tag_id
    counters,             \* scanned, updated, skipped, failed
    last,                 \* what the last loop iteration did
    hist,                 \* what the run did so far, and the run before it
    fileMetrics,          \* the metrics file (config.metrics_file)
    run_tokens,           \* run_prompt_tokens, run_completion_tokens, run_total_tokens
    call,                 \* one call of a PaperlessClient method taken alone: its
                          \* arguments, the answers of the store, its outcome
    env                   \* the surroundings of the behaviour: the configurations
                          \* in use and the answers of classifier and store

vars == << now, docs, entities, fileFailed, fileCache, pc, pos, runs, cfg,
           failed_docs_until, failed_patch_cache, tagIds, counters, last, hist,
           fileMetrics, run_tokens, call, env >>

\* dict.pop(k, None), dict[k] = v and dict.get(k, 0.0) on doc-keyed dicts.
Pop(f, k) == [x \in (DOMAIN f) \ {k} |-> f[x]]
Put(f, k, v) == (k :> v) @@ Pop(f, k)
GetTs(f, k) == IF k \in DOMAIN f THEN f[k] ELSE 0

failed_docs_cooldown_seconds(c) ==
    Max(0, c.failed_document_cooldown_hours) * SecondsPerHour
failed_tags_only_cooldown_seconds(c) ==
    Max(0, c.failed_tags_only_cooldown_hours) * SecondsPerHour
\* can_create_entities taken from the configuration file alone.
can_create_entities_Config(c) == c.create_missing_entities

can_create_entities(c) == c.create_missing_entities /\ ~c.dry_run

\* PruneExpired without the filter.
PruneExpired_Keep(loaded, now_ts) == loaded

\* The expired entries dropped when the quarantine file is loaded.
PruneExpired(loaded, now_ts) ==
    [k \in {x \in DOMAIN loaded : loaded[x] > now_ts} |-> loaded[k]]

\* ------------------------------------------------------------------ metrics
NoTokens == [prompt_tokens |-> 0, completion_tokens |-> 0, total_tokens |-> 0]

\* The payload load_metrics falls back to and async_reset_metrics writes.
DefaultMetrics ==
    [last_run |-> NoTokens,
     totals |-> [prompt_tokens |-> 0, completion_tokens |-> 0, total_tokens |-> 0,
                 runs |-> 0]]

\* The metrics file: missing, or holding a payload.
NoMetricsFile == [exists |-> FALSE, payload |-> DefaultMetrics]
MetricsFile(payload) == [exists |-> TRUE, payload |-> payload]

load_metrics(file) == IF file.exists THEN file.payload ELSE DefaultMetrics

\* extract_usage: a total of 0 is replaced by prompt + completion.
extract_usage(usage) ==
    [prompt_tokens |-> usage.prompt_tokens,
     completion_tokens |-> usage.completion_tokens,
     total_tokens |-> IF usage.total_tokens = 0
                      THEN usage.prompt_tokens + usage.completion_tokens
                      ELSE usage.total_tokens]

\* Lines 1376-1378: the usage of one classification is added to the run's sums.
AddUsage(sums, u) ==
    [prompt_tokens |-> sums.prompt_tokens + u.prompt_tokens,
     completion_tokens |-> sums.completion_tokens + u.completion_tokens,
     total_tokens |-> sums.total_tokens + u.total_tokens]

\* Lines 1585-1609: the payload built from the loaded metrics and the run's sums.
metrics_payload(existing_metrics, run) ==
    [last_run |-> run,
     totals |-> [prompt_tokens |-> existing_metrics.totals.prompt_tokens + run.prompt_tokens,
                 completion_tokens |->
                     existing_metrics.totals.completion_tokens + run.completion_tokens,
                 total_tokens |-> existing_metrics.totals.total_tokens + run.total_tokens,
                 runs |-> existing_metrics.totals.runs + 1]]

\* The usage blocks a classification answer carries: none, a full one, one
\* without total_tokens.
NoUsage == NoTokens
Usages ==
    { NoUsage,
      [prompt_tokens |-> 2, completion_tokens |-> 1, total_tokens |-> 3],
      [prompt_tokens |-> 1, completion_tokens |-> 1, total_tokens |-> 0] }

NoStep ==
    [doc |-> 0, at |-> 0, pos |-> 0, counters |-> [scanned |-> 0, updated |-> 0,
                                                    skipped |-> 0, failed |-> 0],
     tsBefore |-> 0, cachedBefore |-> FALSE, cachedPatch |-> EmptyPatch,
     docBefore |-> [document_type |-> NoId, correspondent |-> NoId,
                    storage_path |-> NoId, created |-> "", tags |-> {}],
     classifierCalled |-> FALSE, resp |-> 0, reachedFilter |-> FALSE,
     finalPatch |-> EmptyPatch, updateArgs |-> << >>, updateOk |-> FALSE,
     sent |-> << >>, feldTags |-> FALSE, posts |-> 0, notes |-> 0,
     tsWritten |-> FALSE, ts |-> 0, markFailed |-> FALSE, noteFailed |-> FALSE,
     usage |-> NoTokens,
     srv |-> [status |-> 200, bad |-> {}], updateSent |-> << >>, errors |-> << >>,
     entitiesBefore |-> [tags |-> {}, document_types |-> {}, correspondents |-> {},
                         storage_paths |-> {}]]

NoHist ==
    [loadNow |-> 0, expiredAtLoad |-> {}, saved |-> FALSE,
     written |-> {}, fullWrite |-> [d \in Docs |-> 0], quarantined |-> {},
     prevWrite |-> [d \in Docs |-> 0], prevLoadNow |-> 0, sameCfg |-> FALSE,
     ended |-> "", prologuePosts |-> 0, probe |-> NoProbe, preflight |-> "ok",
     storeRequests |-> 0,
     metricsBefore |-> DefaultMetrics, metricsLoaded |-> DefaultMetrics,
     metricsSaved |-> FALSE, metricsAfter |-> DefaultMetrics, resetInRun |-> FALSE]

\* A freshly scanned, untyped document carrying the filter tag.
PlainDoc ==
    [document_type |-> NoId, correspondent |-> NoId, storage_path |-> NoId,
     created |-> "2024-01-01T08:30:00+00:00", tags |-> {AId}]

DocStates ==
    { [PlainDoc EXCEPT !.document_type = t, !.tags = g] :
      t \in {NoId, EntityId("invoice")}, g \in SUBSET {KiId, NeuId, AId} }

FullRegistry == {"a", "ki", "ki_fehler", "#neu"}

\* The state before the first run: no quarantine files, the first document
\* in one of the states firstDocs (with tags the store knows).
InitWith(registries, firstDocs, surroundings) ==
    /\ now = 0
    /\ \E reg \in registries, s \in firstDocs :
          /\ \A g \in s.tags : \E l \in reg : EntityId(l) = g
          /\ entities = [tags |-> reg, document_types |-> {"invoice"},
                         correspondents |-> {}, storage_paths |-> {"privat"}]
          /\ docs = [d \in Docs |-> IF d = 1 THEN s ELSE PlainDoc]
    /\ fileFailed = << >>
    /\ fileCache = << >>
    /\ pc = "idle"
    /\ pos = 0
    /\ runs = 0
    /\ cfg = DefaultConfig
    /\ failed_docs_until = << >>
    /\ failed_patch_cache = << >>
    /\ tagIds = [ki |-> NoId, error |-> NoId, neu |-> NoId, only |-> NoId]
    /\ counters = NoStep.counters
    /\ last = NoStep
    /\ hist = NoHist
    /\ fileMetrics \in surroundings.metricsFiles
    /\ run_tokens = NoTokens
    /\ env = surroundings

\* Two documents per run, quarantine enabled, with or without
\* --all-documents; dry_run and the cooldown hours change between runs; the
\* classifier fails or proposes one tag, the store accepts a PATCH or answers
\* HTTP 500 when it carries tags.
QuarantineSurroundings ==
    [configs |-> ConfigsOf(BOOLEAN, {TRUE}, {<< TRUE, "" >>, << FALSE, "" >>}, {TRUE},
                           CooldownHours, {NumDocs}),
     reconfigure |-> TRUE,
     responses |-> [d \in Docs |-> IF d = 1 THEN {0, 2} ELSE {2}],
     servers |-> {m \in ServerModes : m.bad \in {{}, {"tags"}}},
     usages |-> {NoUsage}, metricsFiles |-> {NoMetricsFile}, metricsWritable |-> {TRUE},
     probes |-> {NoProbe}]

\* A document an earlier run has classified.
DoneDoc == [PlainDoc EXCEPT !.document_type = EntityId("invoice"), !.tags = {KiId, AId}]

Init == InitWith({FullRegistry}, {PlainDoc, DoneDoc}, QuarantineSurroundings) /\ call = NoCall

\* One document per run and the same configuration in every run; every
\* processing mode, every classifier answer, every answer of the store.
PatchSurroundings ==
    [configs |-> ConfigsOf(BOOLEAN, {TRUE}, Modes, BOOLEAN, {<< 1, 2 >>}, {1}),
     reconfigure |-> FALSE,
     responses |-> [d \in Docs |-> WellFormedResponses],
     servers |-> ServerModes,
     usages |-> {NoUsage}, metricsFiles |-> {NoMetricsFile}, metricsWritable |-> {TRUE},
     probes |-> {NoProbe}]

InitPatch == InitWith({{"a"}, FullRegistry}, DocStates, PatchSurroundings) /\ call = NoCall

\* Two documents per run, quarantine enabled, with or without
\* --all-documents, a store that lacks the KI tags; dry_run changes between runs; the classifier fails,
\* answers with a malformed body, or proposes labels the store lacks.
FaultSurroundings ==
    [configs |-> ConfigsOf(BOOLEAN, {TRUE}, {<< TRUE, "" >>, << FALSE, "" >>}, BOOLEAN,
                           {<< 1, 2 >>}, {NumDocs}),
     reconfigure |-> TRUE,
     responses |-> [d \in Docs |-> IF d = 1 THEN (Responses \ WellFormedResponses) \cup {0, 2, 5}
                                   ELSE {2}],
     servers |-> {m \in ServerModes : m.bad \in {{}, {"tags"}}},
     usages |-> {NoUsage}, metricsFiles |-> {NoMetricsFile}, metricsWritable |-> {TRUE},
     probes |-> {NoProbe}]

InitFaults == InitWith({{"a"}}, {PlainDoc}, FaultSurroundings) /\ call = NoCall

\* ------------------------------------------------------------ run prologue
\* process_documents up to the document loop: the token precheck, the
\* requests to the store at startup, load and prune the quarantine state,
\* resolve the KI / KI_FEHLER / #NEU tags, select the mode.
StartRun ==
    /\ pc = "idle"
    /\ runs < MaxRuns
    /\ \E c \in env.configs, createOk \in BOOLEAN, probe \in env.probes :
          /\ runs > 0 => IF env.reconfigure THEN SameInstallation(c, cfg) ELSE c = cfg
          /\ LET preflight == preflight_token_budget(c, probe)
                 ki == IF preflight # "ok"
                       THEN [raised |-> TRUE, id |-> NoId, mapping |-> entities.tags,
                             posts |-> 0]
                       ELSE ensure_entity_id(entities.tags, "KI", can_create_entities(c),
                                             createOk)
                 er == IF ki.raised THEN ki
                       ELSE ensure_entity_id(ki.mapping, "KI_FEHLER",
                                             can_create_entities(c), createOk)
                 tags_map == er.mapping
                 only_tag_name == Norm(c.process_only_tag)
                 filterMode == ~c.process_all_documents /\ only_tag_name # ""
                 only_tag_id == IF filterMode /\ only_tag_name \in tags_map
                                THEN EntityId(only_tag_name) ELSE NoId
                 tagNotFound == filterMode /\ only_tag_id = NoId
                 enters == ~er.raised /\ ~tagNotFound
                 loads == preflight = "ok" /\ c.quarantine_failed_documents
             IN  /\ cfg' = c
                 /\ entities' = [entities EXCEPT !.tags = tags_map]
                 /\ failed_docs_until' =
                       IF loads THEN PruneExpired(fileFailed, now) ELSE << >>
                 /\ failed_patch_cache' = IF loads THEN fileCache ELSE << >>
                 /\ tagIds' = [ki |-> ki.id, error |-> er.id,
                               neu |-> IF "#neu" \in tags_map THEN EntityId("#neu") ELSE NoId,
                               only |-> only_tag_id]
                 /\ pc' = IF enters THEN "scan" ELSE "idle"
                 /\ pos' = IF enters THEN 1 ELSE 0
                 /\ hist' = [NoHist EXCEPT
                               !.loadNow = now,
                               !.expiredAtLoad =
                                   IF loads
                                   THEN {d \in DOMAIN fileFailed : fileFailed[d] <= now}
                                   ELSE {},
                               !.prevWrite = hist.fullWrite,
                               !.prevLoadNow = hist.loadNow,
                               !.sameCfg = (c = cfg /\ runs > 0),
                               !.metricsBefore = load_metrics(fileMetrics),
                               !.metricsAfter = load_metrics(fileMetrics),
                               !.probe = IF c.enable_token_precheck THEN probe ELSE NoProbe,
                               !.preflight = preflight,
                               !.storeRequests =
                                   IF preflight # "ok" THEN 0
                                   ELSE StartupRequests + ki.posts
                                        + (IF ki.raised THEN 0 ELSE er.posts),
                               !.prologuePosts = ki.posts + (IF ki.raised THEN 0 ELSE er.posts),
                               !.ended = IF er.raised THEN "raised"
                                         ELSE IF tagNotFound THEN "returned"
                                         ELSE ""]
    /\ runs' = runs + 1
    /\ counters' = NoStep.counters
    /\ last' = NoStep
    /\ run_tokens' = NoTokens
    /\ UNCHANGED << env, call, now, docs, fileFailed, fileCache, fileMetrics >>

\* ------------------------------------------------------------ document loop
\* iter_documents yields the next document (at most max_documents of them).
InLoop == pc = "scan" /\ pos <= NumDocs /\ pos <= cfg.max_documents

\* HasCachedPatch looking up the integer id in the string-keyed cache.
HasCachedPatch_IntKey(d) ==
    cfg.quarantine_failed_documents /\ d \in {}

HasCachedPatch(d) ==
    cfg.quarantine_failed_documents /\ d \in DOMAIN failed_patch_cache

\* A quarantine that the all-documents override switches off.
InQuarantine_UnlessAll(d) ==
    /\ cfg.quarantine_failed_documents
    /\ ~cfg.process_all_documents
    /\ GetTs(failed_docs_until, d) > now

InQuarantine(d) ==
    cfg.quarantine_failed_documents /\ GetTs(failed_docs_until, d) > now

\* Skip rules that apply the heuristic next to the tag filter.
SkippedByRules_Heuristic(d) ==
    /\ ~cfg.process_all_documents
    /\ \/ tagIds.only # NoId /\ tagIds.only \notin docs[d].tags
       \/ ~should_process_document(docs[d])

SkippedByRules(d) ==
    \/ /\ ~cfg.process_all_documents
       /\ tagIds.only # NoId
       /\ tagIds.only \notin docs[d].tags
    \/ /\ ~cfg.process_all_documents
       /\ tagIds.only = NoId
       /\ ~should_process_document(docs[d])

Bump_ScannedOnly(outcome) == [counters EXCEPT !.scanned = @ + 1]

Bump(outcome) == [counters EXCEPT !.scanned = @ + 1, ![outcome] = @ + 1]

StepBase(d) ==
    [NoStep EXCEPT !.doc = d, !.at = now, !.pos = pos, !.counters = counters,
                   !.tsBefore = GetTs(failed_docs_until, d),
                   !.cachedBefore = d \in DOMAIN failed_patch_cache,
                   !.cachedPatch = IF d \in DOMAIN failed_patch_cache
                                   THEN failed_patch_cache[d] ELSE EmptyPatch,
                   !.docBefore = docs[d], !.entitiesBefore = entities]

\* RetryAfterTs with the general cooldown only.
RetryAfterTs_General(c, now_ts) ==
    now_ts + failed_docs_cooldown_seconds(c)

\* Lines 1313-1316: the quarantine end after a failed retry of a cached patch.
RetryAfterTs(c, now_ts) ==
    now_ts + Max(failed_docs_cooldown_seconds(c), failed_tags_only_cooldown_seconds(c))

\* Lines 1293-1337: a cached patch is written back without classification.
RetryCachedPatch ==
    /\ InLoop
    /\ HasCachedPatch(pos)
    /\ LET d == pos
           retry_payload == failed_patch_cache[d]
       IN  IF cfg.dry_run
           THEN /\ counters' = Bump("skipped")
                /\ last' = StepBase(d)
                /\ UNCHANGED << docs, failed_docs_until, failed_patch_cache, hist >>
           ELSE \E srv \in env.servers :
                  LET u == update_document(retry_payload, srv)
                      retry_after_ts == RetryAfterTs(cfg, now)
                  IN  IF u.ok
                      THEN /\ docs' = [docs EXCEPT ![d] = ApplyPatch(@, u.applied)]
                           /\ failed_patch_cache' = Pop(failed_patch_cache, d)
                           /\ failed_docs_until' = Pop(failed_docs_until, d)
                           /\ counters' = Bump("updated")
                           /\ last' = [StepBase(d) EXCEPT
                                         !.updateArgs = << retry_payload >>,
                                         !.updateOk = TRUE, !.sent = u.sent,
                                         !.updateSent = u.sent, !.srv = srv]
                           /\ hist' = [hist EXCEPT !.written = @ \cup {d}]
                      ELSE /\ failed_docs_until' = Put(failed_docs_until, d, retry_after_ts)
                           /\ counters' = Bump("failed")
                           /\ last' = [StepBase(d) EXCEPT
                                         !.updateArgs = << retry_payload >>,
                                         !.sent = u.sent,
                                         !.updateSent = u.sent, !.srv = srv,
                                         !.errors = << [id |-> d,
                                                        error_type |-> "PaperlessApiError",
                                                        patch_payload |-> << retry_payload >>] >>,
                                         !.tsWritten = TRUE, !.ts = retry_after_ts]
                           /\ hist' = [hist EXCEPT !.quarantined = @ \cup {d}]
                           /\ UNCHANGED << docs, failed_patch_cache >>
    /\ pos' = pos + 1
    /\ UNCHANGED << env, call, now, entities, fileFailed, fileCache, pc, runs, cfg, tagIds,
                    fileMetrics, run_tokens >>

\* Lines 1339-1353: the document is still in quarantine.
QuarantineSkip ==
    /\ InLoop
    /\ ~HasCachedPatch(pos)
    /\ InQuarantine(pos)
    /\ counters' = Bump("skipped")
    /\ last' = StepBase(pos)
    /\ pos' = pos + 1
    /\ UNCHANGED << env, call, now, docs, entities, fileFailed, fileCache, pc, runs, cfg,
                    failed_docs_until, failed_patch_cache, tagIds, hist,
                    fileMetrics, run_tokens >>

\* Lines 1354-1365: the expired record is dropped, then the tag filter or the
\* has-type-and-tags rule skips the document.
SkipByRules ==
    /\ InLoop
    /\ ~HasCachedPatch(pos)
    /\ ~InQuarantine(pos)
    /\ SkippedByRules(pos)
    /\ failed_docs_until' = IF cfg.quarantine_failed_documents
                            THEN Pop(failed_docs_until, pos) ELSE failed_docs_until
    /\ counters' = Bump("skipped")
    /\ last' = StepBase(pos)
    /\ pos' = pos + 1
    /\ UNCHANGED << env, call, now, docs, entities, fileFailed, fileCache, pc, runs, cfg,
                    failed_patch_cache, tagIds, hist, fileMetrics, run_tokens >>


\* Lines 1494-1497: the failed patch carries the tags field and nothing else.
tags_only_patch(hasPatch, patch_payload_for_error) ==
    /\ hasPatch
    /\ patch_payload_for_error # EmptyPatch
    /\ DOMAIN patch_payload_for_error = {"tags"}

\* retry_delay_seconds without the tags-only extension.
retry_delay_seconds_General(c, extended) ==
    failed_docs_cooldown_seconds(c)

\* Lines 1492-1503: the general cooldown, or the tags-only cooldown when the
\* failure is a tags-only failure and that cooldown is the longer one.
retry_delay_seconds(c, extended) ==
    IF extended
    THEN failed_tags_only_cooldown_seconds(c)
    ELSE failed_docs_cooldown_seconds(c)

\* An error annotation whose except clauses catch nothing.
CaughtByAnnotation_Nothing(exc) == FALSE

\* Lines 1545 and 1561: the error-tag PATCH and the error-note POST are each
\* wrapped in "except PaperlessApiError", which only logs.
CaughtByAnnotation(exc) == exc = "PaperlessApiError"

\* Lines 1485-1577, the except branch: count the failure, write the
\* quarantine record (and the patch cache on a tags-only failure), then mark
\* the document with the error tags and an error note.  hasPatch is FALSE
\* while patch_payload_for_error is still None.
HandleFailure(d, document, unlocked, hasPatch, patch_payload_for_error, feldTags, srv) ==
    LET quarantines == /\ cfg.quarantine_failed_documents
                       /\ failed_docs_cooldown_seconds(cfg) > 0
        extended == /\ tags_only_patch(hasPatch, patch_payload_for_error)
                    /\ feldTags
                    /\ failed_tags_only_cooldown_seconds(cfg)
                         > failed_docs_cooldown_seconds(cfg)
        retry_after_ts == now + retry_delay_seconds(cfg, extended)
        noNeu == IF tagIds.neu # NoId THEN document.tags \ {tagIds.neu} ELSE document.tags
        withErr == IF tagIds.error # NoId THEN noNeu \cup {tagIds.error} ELSE noNeu
        new_tags == IF tagIds.ki # NoId THEN withErr \cup {tagIds.ki} ELSE withErr
        marks == ~cfg.dry_run /\ new_tags # document.tags
        markPayload == ("tags" :> new_tags)
        marked == marks /\ ~RequestFails(markPayload, srv)
        noteFailed == ~cfg.dry_run /\ RequestFails(("note" :> "KI-Fehler"), srv)
    IN  [failed_docs_until |-> IF quarantines
                               THEN Put(unlocked, d, retry_after_ts) ELSE unlocked,
         failed_patch_cache |-> IF quarantines /\ extended
                                THEN Put(failed_patch_cache, d, patch_payload_for_error)
                                ELSE failed_patch_cache,
         tsWritten |-> quarantines,
         ts |-> IF quarantines THEN retry_after_ts ELSE 0,
         document |-> IF marked THEN [document EXCEPT !.tags = new_tags] ELSE document,
         sent |-> IF marks THEN << markPayload >> ELSE << >>,
         notes |-> IF cfg.dry_run THEN 0 ELSE 1,
         markFailed |-> marks /\ ~marked,
         noteFailed |-> noteFailed,
         raised |-> IF /\ (marks /\ ~marked) \/ noteFailed
                       /\ ~CaughtByAnnotation("PaperlessApiError")
                    THEN "PaperlessApiError" ELSE ""]

\* OutcomeBase without the unlock of lines 1354-1355 and 1371.
OutcomeBase_Locked(d, resp) ==
    [docs |-> docs, entities |-> entities,
     failed_docs_until |-> failed_docs_until,
     failed_patch_cache |-> failed_patch_cache,
     counters |-> counters,
     written |-> FALSE, fullWrite |-> FALSE, raised |-> "",
     log |-> [StepBase(d) EXCEPT !.classifierCalled = TRUE, !.resp = resp]]

\* What a loop iteration that reaches the try block leaves behind.
\* Line 1371 has dropped the document's quarantine record.
OutcomeBase(d, resp) ==
    [docs |-> docs, entities |-> entities,
     failed_docs_until |-> IF cfg.quarantine_failed_documents
                           THEN Pop(failed_docs_until, d) ELSE failed_docs_until,
     failed_patch_cache |-> failed_patch_cache,
     counters |-> counters,
     written |-> FALSE, fullWrite |-> FALSE, raised |-> "",
     log |-> [StepBase(d) EXCEPT !.classifierCalled = TRUE, !.resp = resp]]

\* The except branch applied to the iteration b of document d, for the
\* caught exception exc.
Failed(b, d, exc, hasPatch, patch_payload_for_error, feldTags, srv) ==
    LET h == HandleFailure(d, docs[d], b.failed_docs_until, hasPatch,
                           patch_payload_for_error, feldTags, srv)
    IN [b EXCEPT !.docs = [docs EXCEPT ![d] = h.document],
                 !.failed_docs_until = h.failed_docs_until,
                 !.failed_patch_cache = h.failed_patch_cache,
                 !.counters = Bump("failed"),
                 !.raised = h.raised,
                 !.log = [@ EXCEPT !.tsWritten = h.tsWritten, !.ts = h.ts,
                                   !.markFailed = h.markFailed,
                                   !.noteFailed = h.noteFailed,
                                   !.sent = @ \o h.sent, !.notes = h.notes,
                                   !.srv = srv,
                                   !.errors = << [id |-> d, error_type |-> exc,
                                                  patch_payload |->
                                                      IF hasPatch
                                                      THEN << patch_payload_for_error >>
                                                      ELSE << >>] >>]]

\* Lines 1456-1484: dry run, or update_document (result u) and the AI note.
WriteBack(b, d, patch_payload, u, srv) ==
    LET uncached == IF cfg.quarantine_failed_documents
                    THEN Pop(failed_patch_cache, d) ELSE failed_patch_cache
    IN  IF cfg.dry_run
        THEN [b EXCEPT !.failed_patch_cache = uncached, !.counters = Bump("updated")]
        ELSE IF u.ok
        THEN [b EXCEPT !.docs = [docs EXCEPT ![d] = ApplyPatch(@, u.applied)],
                       !.failed_patch_cache = uncached,
                       !.counters = Bump("updated"),
                       !.written = TRUE,
                       !.fullWrite = (Len(u.sent) = 1),
                       !.log = [@ EXCEPT !.updateArgs = << patch_payload >>,
                                         !.updateOk = TRUE, !.sent = u.sent,
                                         !.updateSent = u.sent, !.srv = srv,
                                         !.notes = 1]]
        ELSE Failed([b EXCEPT !.log = [@ EXCEPT !.updateArgs = << patch_payload >>,
                                                !.sent = u.sent,
                                                !.updateSent = u.sent,
                                                !.feldTags = u.feldTags]],
                    d, "PaperlessApiError", TRUE, patch_payload, u.feldTags, srv)

\* Lines 1413-1434: forced tag rules and diff filter gave patch_payload.
AfterFilter(b, d, patch_payload, srv) ==
    IF patch_payload = EmptyPatch
    THEN [b EXCEPT !.counters = Bump("skipped"), !.log.reachedFilter = TRUE]
    ELSE WriteBack([b EXCEPT !.log = [@ EXCEPT !.reachedFilter = TRUE,
                                               !.finalPatch = patch_payload]],
                   d, patch_payload, update_document(patch_payload, srv), srv)

\* Lines 1395-1411: build_patch_payload gave built.
AfterBuild(b, d, built, srv) ==
    IF built.raised
    THEN Failed([b EXCEPT !.entities = built.maps, !.log.posts = built.posts],
                d, "PaperlessApiError", FALSE, EmptyPatch, FALSE, srv)
    ELSE IF built.payload = EmptyPatch
    THEN [b EXCEPT !.counters = Bump("skipped")]
    ELSE AfterFilter([b EXCEPT !.entities = built.maps, !.log.posts = built.posts],
                     d,
                     filter_unchanged_patch_fields(
                         docs[d],
                         apply_forced_tag_rules(built.payload, docs[d].tags,
                                                tagIds.ki, tagIds.neu)),
                     srv)

\* AfterClassify without the confidence threshold.
AfterClassify_NoThreshold(b, d, prediction, srv, createOk) ==
    AfterBuild(b, d,
               build_patch_payload(prediction, entities,
                                   can_create_entities(cfg), createOk),
               srv)

\* Lines 1374-1393: sanitize_prediction gave prediction; confidence threshold.
AfterClassify(b, d, prediction, srv, createOk) ==
    IF prediction.confidence_is # "nan" /\ prediction.confidence < ConfidenceThreshold
    THEN [b EXCEPT !.counters = Bump("skipped")]
    ELSE AfterBuild(b, d,
                    build_patch_payload(prediction, entities,
                                        can_create_entities(cfg), createOk),
                    srv)

\* Lines 1367-1484 with the except branch: the classifier answers resp, the
\* store answers as srv, entity creation succeeds iff createOk.  The except
\* clause of line 1485 names AiClassificationError, PaperlessApiError and
\* ValueError: any other exception leaves process_documents.
ClassifyOutcome(d, resp, srv, createOk) ==
    IF classify(resp) = "AiClassificationError"
    THEN Failed(OutcomeBase(d, resp), d, "AiClassificationError",
                FALSE, EmptyPatch, FALSE, srv)
    ELSE IF classify(resp) # "ok"
    THEN [OutcomeBase(d, resp) EXCEPT !.raised = classify(resp),
                                      !.counters = [counters EXCEPT !.scanned = @ + 1]]
    ELSE AfterClassify(OutcomeBase(d, resp), d,
                       sanitize_prediction(Predictions[resp], entities.storage_paths),
                       srv, createOk)

\* The state after the loop iteration with outcome o; an exception that is
\* not caught ends the run before anything is saved.
Becomes(o, d, resp, usage) ==
    /\ docs' = o.docs
    /\ entities' = o.entities
    /\ failed_docs_until' = o.failed_docs_until
    /\ failed_patch_cache' = o.failed_patch_cache
    /\ counters' = o.counters
    /\ last' = [o.log EXCEPT !.usage = IF classify(resp) = "ok" THEN usage ELSE NoTokens]
    /\ pc' = IF o.raised # "" THEN "idle" ELSE pc
    /\ hist' = [hist EXCEPT
                  !.ended = IF o.raised # "" THEN "raised" ELSE @,
                  !.written = IF o.written THEN @ \cup {d} ELSE @,
                  !.fullWrite[d] = IF o.fullWrite THEN resp ELSE 0,
                  !.quarantined = IF o.log.tsWritten THEN @ \cup {d} ELSE @]

ClassifyDocument ==
    /\ InLoop
    /\ ~HasCachedPatch(pos)
    /\ ~InQuarantine(pos)
    /\ ~SkippedByRules(pos)
    /\ \E resp \in env.responses[pos], srv \in env.servers, createOk \in BOOLEAN,
          usage \in env.usages :
          /\ Becomes(ClassifyOutcome(pos, resp, srv, createOk), pos, resp, usage)
          /\ run_tokens' = IF ClassifyOk(resp)
                           THEN AddUsage(run_tokens, extract_usage(usage))
                           ELSE run_tokens
    /\ pos' = pos + 1
    /\ UNCHANGED << env, call, now, fileFailed, fileCache, runs, cfg, tagIds, fileMetrics >>

\* --------------------------------------------------------------- run epilogue
\* Lines 1579-1610: the loop is over; the quarantine state is saved, the
\* metrics are loaded, added to and saved (save_metrics only logs an OSError).
FinishRun ==
    /\ pc = "scan"
    /\ ~InLoop
    /\ fileFailed' = IF cfg.quarantine_failed_documents THEN failed_docs_until ELSE fileFailed
    /\ fileCache' = IF cfg.quarantine_failed_documents THEN failed_patch_cache ELSE fileCache
    /\ \E writeOk \in env.metricsWritable :
          LET existing_metrics == load_metrics(fileMetrics)
          IN  /\ fileMetrics' = IF writeOk
                                THEN MetricsFile(metrics_payload(existing_metrics, run_tokens))
                                ELSE fileMetrics
              /\ hist' = [hist EXCEPT !.saved = cfg.quarantine_failed_documents,
                                       !.ended = "returned",
                                       !.metricsLoaded = existing_metrics,
                                       !.metricsSaved = writeOk,
                                       !.metricsAfter =
                                           IF writeOk
                                           THEN metrics_payload(existing_metrics, run_tokens)
                                           ELSE existing_metrics]
    /\ pc' = "idle"
    /\ UNCHANGED << env, call, now, docs, entities, pos, runs, cfg, failed_docs_until,
                    failed_patch_cache, tagIds, counters, last, run_tokens >>

\* runner.py, async_reset_metrics: the reset button writes the default
\* payload, whether or not a run is in progress.
ResetMetrics ==
    /\ fileMetrics # MetricsFile(DefaultMetrics)
    /\ fileMetrics' = MetricsFile(DefaultMetrics)
    /\ hist' = [hist EXCEPT !.resetInRun = @ \/ pc = "scan"]
    /\ UNCHANGED << env, call, now, docs, entities, fileFailed, fileCache, pc, pos, runs, cfg,
                    failed_docs_until, failed_patch_cache, tagIds, counters, last,
                    run_tokens >>

\* The wall clock advances, between two runs or between two documents.
Tick ==
    /\ runs > 0
    /\ now < MaxHours * SecondsPerHour
    /\ now' = now + SecondsPerHour
    /\ UNCHANGED << env, call, docs, entities, fileFailed, fileCache, pc, pos, runs, cfg,
                    failed_docs_until, failed_patch_cache, tagIds, counters, last, hist,
                    fileMetrics, run_tokens >>

Next ==
    \/ StartRun
    \/ RetryCachedPatch
    \/ QuarantineSkip
    \/ SkipByRules
    \/ ClassifyDocument
    \/ FinishRun
    \/ Tick

Spec == Init /\ [][Next]_vars

SpecPatch == InitPatch /\ [][Next]_vars

SpecFaults == InitFaults /\ [][Next]_vars

\* One call of _request with 1 to 3 retries (update_document passes 1, every
\* other caller the default), for every series of answers.
InitRequest ==
    /\ InitWith({FullRegistry}, {PlainDoc}, QuarantineSurroundings)
    /\ \E retries \in 1 .. DefaultRetries,
          answers \in [1 .. DefaultRetries -> Answers] :
          call = [NoCall EXCEPT !.pc = "called", !.retries = retries, !.answers = answers]

DoRequest ==
    /\ call.pc = "called"
    /\ call' = [call EXCEPT !.pc = "done", !.outcome = request(call.answers, call.retries)]
    /\ UNCHANGED << now, docs, entities, fileFailed, fileCache, pc, pos, runs, cfg,
                    failed_docs_until, failed_patch_cache, tagIds, counters, last, hist,
                    fileMetrics, run_tokens, env >>

SpecRequest == InitRequest /\ [][DoRequest]_vars

\* A patch with every field, and the store answering one status to every
\* request that carries one of the fields in bad.
FullPatch ==
    [document_type |-> 5, correspondent |-> 6, storage_path |-> 7,
     created |-> "2024-02-02", tags |-> {1, 2}]

Stores == { [status |-> st, bad |-> b] : st \in {200, 400, 500}, b \in SUBSET Fields }

\* One call of update_document, for every non-empty patch and every store.
InitUpdate ==
    /\ InitWith({FullRegistry}, {PlainDoc}, QuarantineSurroundings)
    /\ \E D \in (SUBSET Fields) \ {{}}, srv \in Stores :
          call = [pc |-> "called", patch_payload |-> Restrict(FullPatch, D), srv |-> srv,
                  outcome |-> [ok |-> FALSE, applied |-> EmptyPatch, sent |-> << >>,
                               feldTags |-> FALSE]]

DoUpdate ==
    /\ call.pc = "called"
    /\ call' = [call EXCEPT !.pc = "done",
                            !.outcome = update_document(call.patch_payload, call.srv)]
    /\ UNCHANGED << now, docs, entities, fileFailed, fileCache, pc, pos, runs, cfg,
                    failed_docs_until, failed_patch_cache, tagIds, counters, last, hist,
                    fileMetrics, run_tokens, env >>

SpecUpdate == InitUpdate /\ [][DoUpdate]_vars

\* Two documents per run with the token precheck on or off, for every answer
\* to its probe request.
PrecheckSurroundings ==
    [configs |-> WithPrecheck(ConfigsOf({FALSE}, {TRUE}, {<< TRUE, "" >>, << FALSE, "" >>},
                                        {TRUE}, {<< 1, 2 >>}, {NumDocs})),
     reconfigure |-> TRUE,
     responses |-> [d \in Docs |-> IF d = 1 THEN {0, 2} ELSE {2}],
     servers |-> {m \in ServerModes : m.bad \in {{}, {"tags"}}},
     usages |-> {NoUsage}, metricsFiles |-> {NoMetricsFile}, metricsWritable |-> {TRUE},
     probes |-> Probes]

InitPrecheck ==
    InitWith({{"a"}, FullRegistry}, {PlainDoc, DoneDoc}, PrecheckSurroundings) /\ call = NoCall

SpecPrecheck == InitPrecheck /\ [][Next]_vars

\* Runs with the reset button in reach.
NextMetrics == Next \/ ResetMetrics

\* A metrics file left by an earlier run that used three tokens.
EarlierMetrics ==
    MetricsFile(metrics_payload(DefaultMetrics,
                                [prompt_tokens |-> 2, completion_tokens |-> 1,
                                 total_tokens |-> 3]))

\* Two documents per run; answers with a usage block; the filter tag may be unknown to
\* the store; the metrics file may be missing or left by an earlier run, and
\* writing it may fail.
MetricsSurroundings ==
    [configs |-> ConfigsOf({FALSE}, {TRUE},
                           {<< TRUE, "" >>, << FALSE, "" >>, << FALSE, "Missing" >>}, {TRUE},
                           {<< 1, 2 >>}, {NumDocs}),
     reconfigure |-> TRUE,
     responses |-> [d \in Docs |-> IF d = 1 THEN {0, 2} ELSE {3}],
     servers |-> {m \in ServerModes : m.bad \in {{}, {"tags"}}},
     usages |-> Usages \ {NoUsage}, metricsFiles |-> {NoMetricsFile, EarlierMetrics},
     metricsWritable |-> BOOLEAN, probes |-> {NoProbe}]

InitMetrics == InitWith({FullRegistry}, {PlainDoc, DoneDoc}, MetricsSurroundings) /\ call = NoCall

SpecMetrics == InitMetrics /\ [][NextMetrics]_vars

\* ----------------------------------------------------------------- main
RequiredKeys == {"paperless_url", "paperless_token", "ai_api_key", "ai_model"}

\* The configuration file main is pointed at: whether it exists, what
\* yaml.safe_load makes of it (a YAMLError, None for an empty file, a list, a
\* mapping), the required keys that have a non-empty value, and whether the
\* values load_config converts with int() and float() are numbers.
ConfigFiles ==
    { [exists |-> e, yaml |-> y, present |-> p, numbers_ok |-> n] :
        e \in BOOLEAN, y \in {"invalid", "empty", "list", "mapping"},
        p \in SUBSET RequiredKeys, n \in BOOLEAN }

\* load_config: "ok" when it returns an AppConfig, otherwise the exception
\* that leaves it.  raw.get on a list raises AttributeError; int("x") and
\* float("x") raise ValueError.
load_config(file) ==
    IF ~file.exists THEN "ConfigError"
    ELSE IF file.yaml = "invalid" THEN "ConfigError"
    ELSE IF file.yaml = "list" THEN "AttributeError"
    ELSE IF file.yaml = "empty" THEN "ConfigError"
    ELSE IF file.present # RequiredKeys THEN "ConfigError"
    ELSE IF ~file.numbers_ok THEN "ValueError"
    ELSE "ok"

\* How process_documents ends when main calls it.
ProcessOutcomes == {"returned", "PaperlessApiError", "AiClassificationError", "TypeError"}

\* main: the exit code it returns or the exception that leaves it, and
\* whether process_documents (the first code to use the network) was called.
main(file, process) ==
    IF load_config(file) = "ConfigError"
    THEN [returned |-> TRUE, code |-> 2, raised |-> "", processCalled |-> FALSE]
    ELSE IF load_config(file) # "ok"
    THEN [returned |-> FALSE, code |-> 0, raised |-> load_config(file),
          processCalled |-> FALSE]
    ELSE IF process # "returned"
    THEN [returned |-> TRUE, code |-> 1, raised |-> "", processCalled |-> TRUE]
    ELSE [returned |-> TRUE, code |-> 0, raised |-> "", processCalled |-> TRUE]

\* One call of main, for every configuration file and every outcome of
\* process_documents.
InitMain ==
    /\ InitWith({FullRegistry}, {PlainDoc}, QuarantineSurroundings)
    /\ \E file \in ConfigFiles, process \in ProcessOutcomes :
          call = [pc |-> "called", file |-> file, process |-> process,
                  outcome |-> [returned |-> FALSE, code |-> 0, raised |-> "",
                               processCalled |-> FALSE]]

DoMain ==
    /\ call.pc = "called"
    /\ call' = [call EXCEPT !.pc = "done", !.outcome = main(call.file, call.process)]
    /\ UNCHANGED << now, docs, entities, fileFailed, fileCache, pc, pos, runs, cfg,
                    failed_docs_until, failed_patch_cache, tagIds, counters, last, hist,
                    fileMetrics, run_tokens, env >>

SpecMain == InitMain /\ [][DoMain]_vars

\* The calls observed on their own leave the state of the run alone.
RunUntouched ==
    UNCHANGED << now, docs, entities, fileFailed, fileCache, pc, pos, runs, cfg,
                 failed_docs_until, failed_patch_cache, tagIds, counters, last, hist,
                 fileMetrics, run_tokens, env >>

\* -------------------------------------------------------- iter_documents
\* The store's chain of document pages: page i holds Pages[i] documents and
\* links to page i + 1; the last page has no next link.
MaxPages == 3
MaxPageSize == 2
MaxLimit == 4

PageChains ==
    UNION { [1 .. n -> 0 .. MaxPageSize] : n \in 1 .. MaxPages }

\* The while condition of iter_documents without the limit.
ContinueLoop_NoLimit(c) == c.next_url # 0

\* The while condition of iter_documents: next_url and loaded < limit.
ContinueLoop(c) == c.next_url # 0 /\ c.loaded < c.limit

\* One call of iter_documents consumed to its end, for every limit and chain.
InitIter ==
    /\ InitWith({FullRegistry}, {PlainDoc}, QuarantineSurroundings)
    /\ \E limit \in -1 .. MaxLimit, pages \in PageChains :
          call = [pc |-> "loop", limit |-> limit, pages |-> pages, next_url |-> 1,
                  loaded |-> 0, page |-> 0, item |-> 0, yielded |-> 0, requests |-> 0]

\* Lines 246-247: the loop goes on and requests the page next_url points to.
IterRequest ==
    /\ call.pc = "loop"
    /\ ContinueLoop(call)
    /\ call' = [call EXCEPT !.pc = "page", !.page = call.next_url, !.item = 1,
                            !.requests = @ + 1]
    /\ RunUntouched

\* Lines 250-254: the next document of the page is yielded; the limit ends
\* the page, and line 255 takes over the page's next link.
IterYield ==
    /\ call.pc = "page"
    /\ call.item <= call.pages[call.page]
    /\ call' = IF call.loaded + 1 >= call.limit
               THEN [call EXCEPT !.yielded = @ + 1, !.loaded = @ + 1, !.pc = "loop",
                                 !.next_url = IF call.page < Len(call.pages)
                                              THEN call.page + 1 ELSE 0]
               ELSE [call EXCEPT !.yielded = @ + 1, !.loaded = @ + 1, !.item = @ + 1]
    /\ RunUntouched

\* Line 255: the page is exhausted.
IterPageEnd ==
    /\ call.pc = "page"
    /\ call.item > call.pages[call.page]
    /\ call' = [call EXCEPT !.pc = "loop",
                            !.next_url = IF call.page < Len(call.pages)
                                         THEN call.page + 1 ELSE 0]
    /\ RunUntouched

\* Line 246: the while condition is false, the generator is exhausted.
IterStop ==
    /\ call.pc = "loop"
    /\ ~ContinueLoop(call)
    /\ call' = [call EXCEPT !.pc = "done"]
    /\ RunUntouched

NextIter == IterRequest \/ IterYield \/ IterPageEnd \/ IterStop

\* The consumer keeps asking the generator for the next document.
SpecIter == InitIter /\ [][NextIter]_vars /\ WF_vars(NextIter)

\* ------------------------------------------- filter_unchanged_patch_fields
\* Documents and patch payloads that agree in some fields and differ in
\* others, dates in both notations included.
FilterDocuments ==
    { [document_type |-> t, correspondent |-> NoId, storage_path |-> 7,
       created |-> c, tags |-> g] :
      t \in {NoId, 5}, c \in {"2024-01-01T08:30:00+00:00", "2024-02-02T10:00:00"},
      g \in {{}, {1, 2}} }

FilterPatches ==
    { Restrict([document_type |-> t, correspondent |-> c, storage_path |-> s,
                created |-> d, tags |-> g], D) :
      t \in {NoId, 5}, c \in {NoId, 6}, s \in {7, 8},
      d \in {"2024-01-01", "2024-02-02", "2024-02-02T10:00:00"},
      g \in {{1}, {1, 2}}, D \in SUBSET Fields }

\* One call of filter_unchanged_patch_fields and a second one on its result.
InitFilter ==
    /\ InitWith({FullRegistry}, {PlainDoc}, QuarantineSurroundings)
    /\ \E document \in FilterDocuments, patch_payload \in FilterPatches :
          call = [pc |-> "called", document |-> document, patch_payload |-> patch_payload,
                  once |-> EmptyPatch, twice |-> EmptyPatch]

DoFilter ==
    /\ call.pc = "called"
    /\ call' = [call EXCEPT !.pc = "once",
                   !.once = filter_unchanged_patch_fields(call.document, call.patch_payload)]
    /\ RunUntouched

DoFilterAgain ==
    /\ call.pc = "once"
    /\ call' = [call EXCEPT !.pc = "twice",
                   !.twice = filter_unchanged_patch_fields(call.document, call.once)]
    /\ RunUntouched

NextFilter == DoFilter \/ DoFilterAgain

SpecFilter == InitFilter /\ [][NextFilter]_vars

\* ------------------------------------------------- PaperlessRunner.async_run
\* The runner of runner.py: its asyncio lock, its status fields and the
\* coroutines of its async_run calls, which interleave at their awaits.  In
\* SpecRunner the variable call holds the runner.
MaxCalls == 3
MaxClock == 1
Callers == 1 .. 3

IdleTask ==
    [pc |-> "idle", force |-> FALSE, status |-> "", acquired |-> FALSE,
     active_at_call |-> FALSE, finished_at_call |-> 0, cooldown_at_call |-> FALSE,
     ended_at |-> 0]

\* The coroutines inside "async with self._lock".
HoldsLock(c, t) == c.tasks[t].pc \in {"prepare", "communicate", "refresh"}

\* An acquire that lets a forced call pass a held lock.
AcquiresAtOnce_Forced(c, force) == force \/ (~c.locked /\ c.waiters = << >>)

\* asyncio.Lock.acquire returns at once when the lock is free and nobody
\* waits for it; otherwise the caller queues.
AcquiresAtOnce(c, force) == ~c.locked /\ c.waiters = << >>

\* cooldown_until is set and lies in the future.
InCooldown(c) ==
    c.has_finished /\ c.clock < c.last_finished + c.cooldown_seconds

\* The end of the finally block and of "async with": running is cleared,
\* last_finished is set, the lock is released, the result is returned.
Leave(c, t) ==
    [c EXCEPT !.running = FALSE, !.last_finished = c.clock, !.has_finished = TRUE,
              !.locked = FALSE, !.finished = @ + 1,
              !.tasks[t].pc = "returned", !.tasks[t].status = c.last_status,
              !.tasks[t].ended_at = c.clock]

\* The finally block: _refresh_metrics_from_file returns at once when the
\* metrics file does not exist, and otherwise reads it in an executor job.
AfterTry(c, t) ==
    IF c.metrics = "absent" THEN Leave(c, t) ELSE [c EXCEPT !.tasks[t].pc = "refresh"]

\* Lines 124-151: the lock is held; an empty command raises ValueError at
\* line 150 before anything is awaited (no managed config), otherwise the
\* coroutine awaits the start of the subprocess.
Enter(c, t) ==
    IF c.command_ok
    THEN [c EXCEPT !.locked = TRUE, !.running = TRUE, !.last_status = "running",
                   !.tasks[t].pc = "prepare", !.tasks[t].acquired = TRUE]
    ELSE AfterTry([c EXCEPT !.locked = TRUE, !.running = TRUE, !.last_status = "error",
                            !.tasks[t].acquired = TRUE], t)

\* The gate of async_run, lines 110-124.
Gate(c, t, force) ==
    IF c.locked /\ ~force
    THEN [c EXCEPT !.last_status = "skipped_running", !.tasks[t].pc = "returned",
                   !.tasks[t].status = "skipped_running"]
    ELSE IF ~force /\ InCooldown(c)
    THEN [c EXCEPT !.last_status = "cooldown", !.tasks[t].pc = "returned",
                   !.tasks[t].status = "cooldown"]
    ELSE IF AcquiresAtOnce(c, force) THEN Enter(c, t)
    ELSE [c EXCEPT !.waiters = Append(@, t), !.tasks[t].pc = "wait_lock"]

InitRunner ==
    /\ InitWith({FullRegistry}, {PlainDoc}, QuarantineSurroundings)
    /\ \E cooldown \in {0, 1}, command_ok \in BOOLEAN,
          metrics \in {"absent", "object", "unparsable", "no object"} :
          call = [locked |-> FALSE, waiters |-> << >>, running |-> FALSE,
                  has_finished |-> FALSE, last_finished |-> 0, last_status |-> "idle",
                  clock |-> 0, cooldown_seconds |-> cooldown, command_ok |-> command_ok,
                  metrics |-> metrics, tasks |-> [t \in Callers |-> IdleTask],
                  subprocesses |-> {}, calls |-> 0, finished |-> 0]

\* A caller calls async_run, forced or not, and runs to its first await.
AsyncRun(t, force) ==
    /\ call.calls < MaxCalls
    /\ call.tasks[t].pc \in {"idle", "returned", "raised"}
    /\ call' = Gate([call EXCEPT !.calls = @ + 1,
                        !.tasks[t] = [IdleTask EXCEPT
                            !.force = force,
                            !.active_at_call = \E u \in Callers : HoldsLock(call, u),
                            !.finished_at_call = call.finished,
                            !.cooldown_at_call = InCooldown(call)]], t, force)
    /\ RunUntouched

\* The released lock wakes its first waiter, which takes the lock.
LockAcquired(t) ==
    /\ call.tasks[t].pc = "wait_lock"
    /\ ~call.locked
    /\ Head(call.waiters) = t
    /\ call' = Enter([call EXCEPT !.waiters = Tail(@)], t)
    /\ RunUntouched

\* Lines 141-159: the managed config is written and the subprocess started;
\* either await can raise (OSError, FileNotFoundError), which line 200 catches.
SubprocessStarted(t) ==
    /\ call.tasks[t].pc = "prepare"
    /\ \/ call' = [call EXCEPT !.subprocesses = @ \cup {t},
                               !.tasks[t].pc = "communicate"]
       \/ call' = AfterTry([call EXCEPT !.last_status = "error"], t)
    /\ RunUntouched

\* Lines 160-199: the subprocess ends with an exit code.
SubprocessExited(t) ==
    /\ call.tasks[t].pc = "communicate"
    /\ \E returncode \in {0, 1, 2} :
          call' = AfterTry([call EXCEPT
                      !.subprocesses = @ \ {t},
                      !.last_status = IF returncode = 0 THEN "success" ELSE "error"], t)
    /\ RunUntouched

\* Lines 233-247: the metrics file was read.  JSON that is no object raises
\* AttributeError at payload.get (line 238), which line 246 does not catch: it leaves
\* the finally block at line 212 before line 214, and "async with" releases the lock.
MetricsRefreshed(t) ==
    /\ call.tasks[t].pc = "refresh"
    /\ call' = IF call.metrics = "no object"
               THEN [call EXCEPT !.locked = FALSE, !.finished = @ + 1,
                                 !.tasks[t].pc = "raised",
                                 !.tasks[t].status = "AttributeError",
                                 !.tasks[t].ended_at = call.clock]
               ELSE Leave(call, t)
    /\ RunUntouched

\* datetime.now(UTC) advances.
ClockTick ==
    /\ call.clock < MaxClock
    /\ call' = [call EXCEPT !.clock = @ + 1]
    /\ RunUntouched

NextRunner ==
    \/ \E t \in Callers, force \in BOOLEAN : AsyncRun(t, force)
    \/ \E t \in Callers : LockAcquired(t)
    \/ \E t \in Callers : SubprocessStarted(t)
    \/ \E t \in Callers : SubprocessExited(t)
    \/ \E t \in Callers : MetricsRefreshed(t)
    \/ ClockTick

SpecRunner == InitRunner /\ [][NextRunner]_vars

\* --------------------------------------------------------- ensure_entity_id
\* The values a label can have where ensure_entity_id is called: the
\* classifier's JSON value for document_type, correspondent or storage_path
\* is passed on as it is (lines 822-845), so it is a string, null or, since
\* _validate_model_output does not look at its type, a value of another kind.
JsonLabels ==
    { [is |-> "text", text |-> s] : s \in {"", "  ", "A", " a ", "B", "Invoice", "Missing"} }
    \cup { [is |-> "null", text |-> ""], [is |-> "number", text |-> "0"],
           [is |-> "number", text |-> "5"] }

\* ensure_entity_id on such a value: "not name" holds for null and for 0; on
\* any other number name.strip() raises AttributeError (line 791).
ensure_entity_id_of(mapping, value, create_missing, createOk) ==
    IF value.is = "null" \/ (value.is = "number" /\ value.text = "0")
    THEN [raised |-> FALSE, error |-> "", id |-> NoId, mapping |-> mapping, posts |-> 0]
    ELSE IF value.is = "number"
    THEN [raised |-> TRUE, error |-> "AttributeError", id |-> NoId, mapping |-> mapping,
          posts |-> 0]
    ELSE LET r == ensure_entity_id(mapping, value.text, create_missing, createOk)
         IN [raised |-> r.raised, error |-> IF r.raised THEN "PaperlessApiError" ELSE "",
             id |-> r.id, mapping |-> r.mapping, posts |-> r.posts]

\* One call of ensure_entity_id, for every mapping, label and answer of the
\* store to a creation request.
InitEntity ==
    /\ InitWith({FullRegistry}, {PlainDoc}, QuarantineSurroundings)
    /\ \E mapping \in SUBSET {"a", "b", "invoice"}, value \in JsonLabels,
          create_missing \in BOOLEAN, createOk \in BOOLEAN :
          call = [pc |-> "called", mapping |-> mapping, name |-> value,
                  create_missing |-> create_missing, createOk |-> createOk,
                  outcome |-> [raised |-> FALSE, error |-> "", id |-> NoId,
                               mapping |-> mapping, posts |-> 0]]

DoEntity ==
    /\ call.pc = "called"
    /\ call' = [call EXCEPT !.pc = "done",
                   !.outcome = ensure_entity_id_of(call.mapping, call.name,
                                                   call.create_missing, call.createOk)]
    /\ UNCHANGED << now, docs, entities, fileFailed, fileCache, pc, pos, runs, cfg,
                    failed_docs_until, failed_patch_cache, tagIds, counters, last, hist,
                    fileMetrics, run_tokens, env >>

SpecEntity == InitEntity /\ [][DoEntity]_vars

\* Outside dry run with the KI tags known: the classifier fails or proposes a
\* tags-only patch, and the store rejects tag patches, notes, both or nothing.
MarkServers ==
    { [status |-> 200, bad |-> {}], [status |-> 500, bad |-> {"tags"}],
      [status |-> 500, bad |-> {"note"}], [status |-> 500, bad |-> {"tags", "note"}] }

MarkSurroundings ==
    [configs |-> ConfigsOf({FALSE}, BOOLEAN, {<< TRUE, "" >>, << FALSE, "" >>}, {TRUE},
                           {<< 1, 2 >>}, {NumDocs}),
     reconfigure |-> TRUE,
     responses |-> [d \in Docs |-> IF d = 1 THEN {0, 2} ELSE {0}],
     servers |-> MarkServers,
     usages |-> {NoUsage}, metricsFiles |-> {NoMetricsFile}, metricsWritable |-> {TRUE},
     probes |-> {NoProbe}]

InitMark == InitWith({FullRegistry}, {PlainDoc, DoneDoc}, MarkSurroundings) /\ call = NoCall

SpecMark == InitMark /\ [][Next]_vars

\* ------------------------------------------- update_document, the full patch
\* What the attempts of the full PATCH can meet.
FullPatchAnswers ==
    { [kind |-> "transport", status |-> 0, content |-> "empty"],
      [kind |-> "response", status |-> 200, content |-> "json"],
      [kind |-> "response", status |-> 400, content |-> "json"],
      [kind |-> "response", status |-> 500, content |-> "json"] }

\* A test that takes every HTTP error status for a server error.
SaysHttp500_AnyStatus(last_error) == last_error \in {"HTTP 400", "HTTP 500"}

\* Line 328, "HTTP 500" in str(exc): the text of the PaperlessApiError of
\* line 221 names the error of the last attempt only.
SaysHttp500(last_error) == last_error = "HTTP 500"

\* update_document where the request of the full patch ended as full and
\* the store answers the later requests as srv.
update_document_after(patch_payload, full, srv) ==
    IF ~full.raised
    THEN [ok |-> TRUE, applied |-> patch_payload, sent |-> << patch_payload >>]
    ELSE IF ~SaysHttp500(full.last_error)
    THEN [ok |-> FALSE, applied |-> EmptyPatch, sent |-> << patch_payload >>]
    ELSE LET fb == TryFallbacks(fallback_candidates(patch_payload), 1, {}, srv)
             ff == TryFields(patch_payload, 1, srv)
         IN IF fb.ok
            THEN [ok |-> TRUE, applied |-> fb.applied,
                  sent |-> << patch_payload >> \o fb.sent]
            ELSE [ok |-> ff.applied # EmptyPatch, applied |-> ff.applied,
                  sent |-> << patch_payload >> \o fb.sent \o ff.sent]

\* One call of update_document, for every non-empty patch, every course of
\* the three attempts of the full patch, and a store that afterwards refuses
\* tag patches or every patch.
InitFullPatch ==
    /\ InitWith({FullRegistry}, {PlainDoc}, QuarantineSurroundings)
    /\ \E D \in (SUBSET Fields) \ {{}},
          answers \in [1 .. DefaultRetries -> FullPatchAnswers],
          srv \in {m \in ServerModes : m.status = 500 /\ m.bad \in {{"tags"}, Fields}} :
          call = [pc |-> "called", patch_payload |-> Restrict(FullPatch, D),
                  answers |-> answers, srv |-> srv,
                  full |-> NoCall.outcome,
                  outcome |-> [ok |-> FALSE, applied |-> EmptyPatch, sent |-> << >>]]

DoFullPatch ==
    /\ call.pc = "called"
    /\ call' = [call EXCEPT
                   !.pc = "done",
                   !.full = request(call.answers, DefaultRetries),
                   !.outcome = update_document_after(call.patch_payload,
                                                     request(call.answers, DefaultRetries),
                                                     call.srv)]
    /\ UNCHANGED << now, docs, entities, fileFailed, fileCache, pc, pos, runs, cfg,
                    failed_docs_until, failed_patch_cache, tagIds, counters, last, hist,
                    fileMetrics, run_tokens, env >>

SpecFullPatch == InitFullPatch /\ [][DoFullPatch]_vars

\* ------------------------------------------------- resolves within one run
\* One entity mapping of a run (process_documents loads it once and hands it
\* to every ensure_entity_id call of the run) and the creation requests made
\* for it. A creation that raises PaperlessApiError fails only its document,
\* so later resolves of the run see the same mapping.
MaxResolves == 4

InitResolve ==
    /\ InitWith({FullRegistry}, {PlainDoc}, QuarantineSurroundings)
    /\ \E mapping \in SUBSET {"b"}, create_missing \in BOOLEAN :
          call = [pc |-> "resolving", mapping |-> mapping,
                  create_missing |-> create_missing, resolves |-> 0,
                  requests |-> << >>,
                  name |-> "", before |-> mapping,
                  outcome |-> [raised |-> FALSE, id |-> NoId, mapping |-> mapping,
                               posts |-> 0]]

DoResolve ==
    /\ call.pc = "resolving"
    /\ call.resolves < MaxResolves
    /\ \E name \in {"", "  ", "A", " a ", "a", "B", "Missing"}, createOk \in BOOLEAN :
          LET r == ensure_entity_id(call.mapping, name, call.create_missing, createOk)
          IN  call' = [call EXCEPT
                         !.mapping = r.mapping,
                         !.resolves = @ + 1,
                         !.requests = IF r.posts = 0 THEN @
                                      ELSE Append(@, [key |-> Norm(name),
                                                      ok |-> ~r.raised, id |-> r.id]),
                         !.name = name,
                         !.before = call.mapping,
                         !.outcome = r]
    /\ RunUntouched

SpecResolve == InitResolve /\ [][DoResolve]_vars

\* async_reset_metrics (lines 254-292): the default payload is written to the
\* metrics file and last_status becomes "metrics_reset", whether a run is
\* active or not; a failed write (OSError) raises before any field is set.
AsyncResetMetrics ==
    /\ call.calls < MaxCalls
    /\ \E writeOk \in BOOLEAN :
          call' = IF writeOk
                  THEN [call EXCEPT !.calls = @ + 1, !.metrics = "object",
                                    !.last_status = "metrics_reset"]
                  ELSE [call EXCEPT !.calls = @ + 1]
    /\ RunUntouched

NextReset == NextRunner \/ AsyncResetMetrics

SpecReset == InitRunner /\ [][NextReset]_vars

\* ------------------------------------ a page fetch that fails during a run
\* iter_documents fetches a page in the head of the document loop (line 1285,
\* outside the try block); PaperlessApiError from _request ends
\* process_documents before the saves at lines 1579-1610.
\* A page fetch failure that still saves the quarantine state.
PageFetchFailed_Saving ==
    /\ InLoop
    /\ pc' = "idle"
    /\ hist' = [hist EXCEPT !.ended = "raised"]
    /\ fileFailed' = failed_docs_until
    /\ fileCache' = failed_patch_cache
    /\ UNCHANGED << env, call, now, docs, entities, pos, runs, cfg,
                    failed_docs_until, failed_patch_cache, tagIds, counters, last,
                    fileMetrics, run_tokens >>

PageFetchFailed ==
    /\ InLoop
    /\ pc' = "idle"
    /\ hist' = [hist EXCEPT !.ended = "raised"]
    /\ UNCHANGED << env, call, now, docs, entities, fileFailed, fileCache, pos, runs, cfg,
                    failed_docs_until, failed_patch_cache, tagIds, counters, last,
                    fileMetrics, run_tokens >>

SpecEscape == InitMetrics /\ [][Next \/ PageFetchFailed]_vars

\* ------------------------------------------------------------------ claims
\* last describes a loop iteration of the current run; counters, the
\* in-memory quarantine state and the document are then as it left them.
Stepped == last.doc # 0

\* The iteration handled a document that the run before wrote in full (one
\* accepted PATCH with the whole final patch); this run started at once, with
\* the same configuration, and the classifier, if asked, gave the same answer.
SecondRunStep ==
    /\ Stepped
    /\ hist.sameCfg
    /\ hist.loadNow = hist.prevLoadNow
    /\ last.at = hist.loadNow
    /\ hist.prevWrite[last.doc] # 0
    /\ last.classifierCalled => last.resp = hist.prevWrite[last.doc]

\* C1: a document written successfully by a run is, in an immediate second
\* run with the same classifier answer, skipped with an empty final patch
\* after filter_unchanged_patch_fields and without a call of update_document.
C1_SecondRunEmptyPatch ==
    SecondRunStep =>
        /\ last.updateArgs = << >>
        /\ last.classifierCalled => (last.reachedFilter /\ last.finalPatch = EmptyPatch)
        /\ counters.skipped = last.counters.skipped + 1

\* C2: every tags value the classification path hands to update_document
\* contains the KI tag id when it is known and never the #NEU tag id.
C2_WrittenTagsForced ==
    \A i \in 1 .. Len(last.updateArgs) :
        (last.classifierCalled /\ "tags" \in DOMAIN last.updateArgs[i]) =>
            /\ tagIds.ki # NoId => tagIds.ki \in last.updateArgs[i]["tags"]
            /\ tagIds.neu # NoId => tagIds.neu \notin last.updateArgs[i]["tags"]

\* The classifier answered with a valid prediction below the threshold.
LowConfidenceStep ==
    /\ Stepped
    /\ last.classifierCalled
    /\ ClassifyOk(last.resp)
    /\ Predictions[last.resp].confidence < ConfidenceThreshold

\* C3: a document classified with a confidence below confidence_threshold
\* gets no update_document call and no PATCH, no entity is created for it,
\* and the skipped counter (and only it) goes up by one.
C3_LowConfidenceSkipped ==
    LowConfidenceStep =>
        /\ last.updateArgs = << >>
        /\ last.sent = << >>
        /\ last.posts = 0
        /\ docs[last.doc] = last.docBefore
        /\ counters.skipped = last.counters.skipped + 1
        /\ counters.updated = last.counters.updated
        /\ counters.failed = last.counters.failed

C3_Witness ==
    /\ LowConfidenceStep
    /\ ~cfg.dry_run
    /\ can_create_entities(cfg)
    /\ Predictions[last.resp].document_type # ""
    /\ counters.skipped = last.counters.skipped + 1

\* C4: with quarantine enabled, a scanned document whose retry-not-before
\* timestamp is later than the current time is skipped without a call of the
\* classifier and without a request to the store, cached patch or not.
C4_QuarantinedNoRequests ==
    (Stepped /\ cfg.quarantine_failed_documents /\ last.tsBefore > last.at) =>
        /\ ~last.classifierCalled
        /\ last.updateArgs = << >>
        /\ last.sent = << >>
        /\ counters.skipped = last.counters.skipped + 1

\* The iteration found a cached patch, quarantine enabled, outside dry run.
CachedPatchStep ==
    /\ Stepped
    /\ cfg.quarantine_failed_documents
    /\ ~cfg.dry_run
    /\ last.cachedBefore

\* C5: for a scanned document with a cached patch (quarantine enabled, no
\* dry run) update_document is called once, with exactly the cached patch,
\* and the classifier is not called, whether the write-back succeeds or not.
C5_CachedPatchOnly ==
    CachedPatchStep =>
        /\ ~last.classifierCalled
        /\ last.updateArgs = << last.cachedPatch >>
        /\ last.posts = 0

C5_Witness ==
    /\ CachedPatchStep
    /\ last.updateArgs = << last.cachedPatch >>
    /\ last.updateOk
    /\ docs[last.doc] # last.docBefore

\* The write-back of a cached patch failed in this iteration.
RetryFailedStep ==
    /\ CachedPatchStep
    /\ last.updateArgs # << >>
    /\ ~last.updateOk

\* C6: after a failed write-back of a cached patch the document's
\* retry-not-before timestamp is the current time plus the larger of the two
\* cooldowns, the cached patch is kept, failed (and only it) goes up by one,
\* and the scan goes on: the next document is due, or the run ends and saves.
C6_RetryFailure ==
    RetryFailedStep =>
        /\ last.doc \in DOMAIN failed_docs_until
        /\ failed_docs_until[last.doc] =
              last.at + Max(cfg.failed_document_cooldown_hours,
                            cfg.failed_tags_only_cooldown_hours) * SecondsPerHour
        /\ last.doc \in DOMAIN failed_patch_cache
        /\ failed_patch_cache[last.doc] = last.cachedPatch
        /\ counters.failed = last.counters.failed + 1
        /\ counters.updated = last.counters.updated
        /\ counters.skipped = last.counters.skipped
        /\ pos = last.pos + 1
        /\ pc = "scan" \/ hist.saved

C6_Witness ==
    /\ RetryFailedStep
    /\ cfg.failed_tags_only_cooldown_hours > cfg.failed_document_cooldown_hours
    /\ InLoop
    /\ counters.failed = last.counters.failed + 1

C8_TimestampInFuture ==
    (Stepped /\ last.tsWritten) => last.ts > last.at

TagsOnlyFailureStep ==
    /\ Stepped
    /\ last.classifierCalled
    /\ last.updateArgs # << >>
    /\ ~last.updateOk
    /\ DOMAIN last.finalPatch = {"tags"}
    /\ last.feldTags

\* The tags-only cooldown is in force: quarantine enabled, a positive general
\* cooldown and a longer tags-only cooldown.
TagsOnlyCooldownApplies ==
    /\ cfg.quarantine_failed_documents
    /\ cfg.failed_document_cooldown_hours > 0
    /\ cfg.failed_tags_only_cooldown_hours > cfg.failed_document_cooldown_hours

C11_ReclassifiedAfterWindow ==
    (Stepped /\ cfg.quarantine_failed_documents /\ last.cachedBefore
        /\ last.tsBefore <= last.at) =>
        last.classifierCalled

\* The classification or the write-back of the iteration's document failed:
\* classify did not return a prediction, an entity creation was refused, or
\* update_document raised.
DocumentFailedStep ==
    /\ Stepped
    /\ last.classifierCalled
    /\ \/ ~ClassifyOk(last.resp)
       \/ last.posts > 0 /\ ~last.reachedFilter /\ counters.skipped = last.counters.skipped
       \/ last.updateArgs # << >> /\ ~last.updateOk

\* C12: a failure of one document's classification or write-back does not
\* end process_documents: failed goes up by one, one error record with the
\* document's id, the error kind and the last attempted patch is appended,
\* and the scan goes on to the remaining documents and the final save.
C12_FailureNeverTerminates ==
    DocumentFailedStep =>
        /\ hist.ended # "raised"
        /\ counters.failed = last.counters.failed + 1
        /\ Len(last.errors) = 1
        /\ last.errors[1].id = last.doc
        /\ last.errors[1].error_type \in {"AiClassificationError", "PaperlessApiError"}
        /\ last.errors[1].patch_payload =
              (IF last.updateArgs # << >> THEN last.updateArgs ELSE << >>)
        /\ pos = last.pos + 1
        /\ pc = "scan" \/ hist.ended = "returned"

\* C13: in a dry run nothing is written to the store: no entity-creation
\* request in the prologue or for a document, no document PATCH (neither of
\* a classified patch nor of a cached one) and no note POST, whatever
\* create_missing_entities says and whether or not the document failed.
C13_DryRunWritesNothing ==
    (runs > 0 /\ cfg.dry_run) =>
        /\ hist.prologuePosts = 0
        /\ Stepped =>
              /\ last.posts = 0
              /\ last.sent = << >>
              /\ last.updateSent = << >>
              /\ last.updateArgs = << >>
              /\ last.notes = 0
              /\ docs[last.doc] = last.docBefore

\* A dry run with create_missing_entities on in which the first document
\* failed and the second one, which has a cached patch, has been scanned.
C13_Witness ==
    /\ cfg.dry_run
    /\ cfg.create_missing_entities
    /\ Stepped
    /\ last.cachedBefore
    /\ counters.failed > 0
    /\ counters.scanned = 2

\* process_documents has returned normally; hist.metricsBefore is the content
\* of the metrics file when the run started, hist.metricsAfter its content
\* when the run returned, run_tokens the token sums of the run.
RunReturned == hist.ended = "returned"

\* C14: after a completed run the saved totals (prompt, completion and total
\* tokens, run count) are each at least the totals persisted before the run,
\* and last_run holds exactly the token counts of the run that just finished.
C14_TotalsMonotoneLastRunExact ==
    RunReturned =>
        /\ hist.metricsAfter.totals.prompt_tokens >= hist.metricsBefore.totals.prompt_tokens
        /\ hist.metricsAfter.totals.completion_tokens >=
              hist.metricsBefore.totals.completion_tokens
        /\ hist.metricsAfter.totals.total_tokens >= hist.metricsBefore.totals.total_tokens
        /\ hist.metricsAfter.totals.runs >= hist.metricsBefore.totals.runs
        /\ hist.metricsAfter.last_run = run_tokens

\* C15: every invocation of process_documents that returns normally saves
\* the metrics file, with totals.runs one more than the value it loaded.
C15_EveryReturnSavesMetrics ==
    RunReturned =>
        /\ hist.metricsSaved
        /\ hist.metricsAfter.totals.runs = hist.metricsLoaded.totals.runs + 1

\* The body breaks one of the validation rules: a required key is missing,
\* tags is not a list, confidence does not lie in [0, 1], document_date or
\* summary is neither a string nor null.
ViolatesRule(payload) ==
    \/ payload.missing # {}
    \/ ~payload.tags_is_list
    \/ payload.confidence_is = "nan"
    \/ payload.confidence_is = "number"
          /\ (payload.confidence < 0 \/ payload.confidence > ConfidenceMax)
    \/ payload.date_is = "other"
    \/ payload.summary_is = "other"

InvalidResponseStep ==
    /\ Stepped
    /\ last.classifierCalled
    /\ last.resp # 0
    /\ ViolatesRule(Predictions[last.resp])

\* C16: a classifier response that violates a validation rule is rejected as
\* a whole: the document is counted as failed, no patch is built from it (no
\* entity is looked up or created, no final patch) and update_document is
\* not called for it.
C16_InvalidResponseRejected ==
    InvalidResponseStep =>
        /\ counters.failed = last.counters.failed + 1
        /\ last.posts = 0
        /\ ~last.reachedFilter
        /\ last.finalPatch = EmptyPatch
        /\ last.updateArgs = << >>
        /\ last.updateSent = << >>

\* update_document was called, its full patch was refused with HTTP 500, and
\* one of the requests it sent afterwards (a fallback payload or a
\* single-field patch) was accepted.
PartialWriteStep ==
    /\ Stepped
    /\ Len(last.updateSent) >= 2
    /\ last.srv.status = 500
    /\ RequestFails(last.updateSent[1], last.srv)
    /\ \E i \in 2 .. Len(last.updateSent) : ~RequestFails(last.updateSent[i], last.srv)

\* C17: if the full patch fails with a server error but a fallback payload
\* or at least one single-field patch succeeds, update_document returns
\* without error, the document is counted as updated (and not as failed),
\* and it has neither a quarantine record nor a cached patch.
C17_PartialSuccessCountsAsUpdated ==
    PartialWriteStep =>
        /\ last.updateOk
        /\ counters.updated = last.counters.updated + 1
        /\ counters.failed = last.counters.failed
        /\ ~last.tsWritten
        /\ last.errors = << >>
        /\ last.doc \notin DOMAIN failed_docs_until
        /\ last.doc \notin DOMAIN failed_patch_cache

\* Every fallback payload was refused and a single-field patch was accepted.
C17_Witness ==
    /\ PartialWriteStep
    /\ last.classifierCalled
    /\ cfg.quarantine_failed_documents
    /\ Len(last.updateSent) >= 4
    /\ RequestFails(last.updateSent[2], last.srv)
    /\ ~RequestFails(last.updateSent[Len(last.updateSent)], last.srv)

\* The classifier's answer was accepted and proposes a correspondent whose
\* trimmed, lower-cased label is a key of the filing-path mapping.
CollidingCorrespondentStep ==
    /\ Stepped
    /\ last.classifierCalled
    /\ ClassifyOk(last.resp)
    /\ Norm(Predictions[last.resp].correspondent) # ""
    /\ Norm(Predictions[last.resp].correspondent) \in last.entitiesBefore.storage_paths

\* The iteration wrote its whole final patch (or had nothing left to write).
WroteAllStep ==
    /\ ~cfg.dry_run
    /\ last.reachedFilter
    /\ \/ last.finalPatch = EmptyPatch
       \/ last.updateOk /\ Len(last.updateSent) = 1

\* C18: a proposed correspondent that collides with a filing-path label is
\* discarded before the patch is built: no correspondent entity is created,
\* neither the final patch nor any request carries a correspondent, and the
\* document type, filing path and tags the store knows after the step are on
\* the document once the patch is written.
C18_CollidingCorrespondentDiscarded ==
    CollidingCorrespondentStep =>
        /\ entities.correspondents = last.entitiesBefore.correspondents
        /\ "correspondent" \notin DOMAIN last.finalPatch
        /\ \A i \in 1 .. Len(last.updateSent) :
              "correspondent" \notin DOMAIN last.updateSent[i]
        /\ docs[last.doc].correspondent = last.docBefore.correspondent
        /\ WroteAllStep =>
              /\ Norm(Predictions[last.resp].document_type) \in entities.document_types =>
                    docs[last.doc].document_type =
                        EntityId(Norm(Predictions[last.resp].document_type))
              /\ Norm(Predictions[last.resp].storage_path) \in entities.storage_paths =>
                    docs[last.doc].storage_path =
                        EntityId(Norm(Predictions[last.resp].storage_path))
              /\ \A i \in 1 .. Len(Predictions[last.resp].tags) :
                    Norm(Predictions[last.resp].tags[i]) \in entities.tags =>
                        EntityId(Norm(Predictions[last.resp].tags[i])) \in docs[last.doc].tags

\* The colliding correspondent was dropped and one PATCH wrote document type,
\* filing path and tags, one of the tags created for it.
C18_Witness ==
    /\ CollidingCorrespondentStep
    /\ last.updateOk
    /\ Len(last.updateSent) = 1
    /\ last.posts > 0
    /\ {"document_type", "storage_path", "tags"} \subseteq DOMAIN last.finalPatch

\* The attempt fails by transport error, unparseable body or HTTP status >= 400.
AttemptFails(answer) ==
    \/ answer.kind = "transport"
    \/ answer.kind = "response" /\ answer.status >= 400
    \/ answer.kind = "response" /\ answer.status < 400 /\ answer.content = "garbage"

\* The number of the first attempt among 1 .. retries that succeeds, 0 if
\* every one of them fails.
FirstSuccess(answers, retries) ==
    IF \A i \in 1 .. retries : AttemptFails(answers[i])
    THEN 0
    ELSE CHOOSE i \in 1 .. retries :
            /\ ~AttemptFails(answers[i])
            /\ \A j \in 1 .. (i - 1) : AttemptFails(answers[j])

\* C19: one _request call makes at most retries attempts; it returns the
\* result of the first attempt that succeeds and makes no attempt after it;
\* when every attempt fails it raises PaperlessApiError naming the error of
\* the last attempt.
C19_RequestRetries ==
    call.pc = "done" =>
        /\ call.outcome.attempts <= call.retries
        /\ FirstSuccess(call.answers, call.retries) # 0 =>
              /\ ~call.outcome.raised
              /\ call.outcome.attempts = FirstSuccess(call.answers, call.retries)
              /\ call.outcome.result =
                    (IF call.answers[FirstSuccess(call.answers, call.retries)].content = "empty"
                     THEN "{}" ELSE "json")
        /\ FirstSuccess(call.answers, call.retries) = 0 =>
              /\ call.outcome.raised
              /\ call.outcome.attempts = call.retries
              /\ call.outcome.last_error = AttemptError(call.answers[call.retries])
              /\ call.outcome.last_error # "None"

\* A call with the default retries whose three attempts fail in the three
\* ways, the last one with HTTP 500.
C19_Witness ==
    /\ call.pc = "done"
    /\ call.retries = DefaultRetries
    /\ call.answers[1].kind = "transport"
    /\ call.answers[2] = [kind |-> "response", status |-> 200, content |-> "garbage"]
    /\ call.answers[3].status = 500
    /\ call.outcome.raised
    /\ call.outcome.last_error = "HTTP 500"

\* The patch without the fields in drop.
Without(patch_payload, drop) == Restrict(patch_payload, (DOMAIN patch_payload) \ drop)

\* seq without its empty payloads, the payloads equal to full and every
\* payload that occurred earlier in seq.
RECURSIVE SkipEmptyAndDuplicates(_, _, _)
SkipEmptyAndDuplicates(seq, i, seen) ==
    IF i > Len(seq) THEN << >>
    ELSE IF seq[i] = EmptyPatch \/ seq[i] \in seen
    THEN SkipEmptyAndDuplicates(seq, i + 1, seen)
    ELSE << seq[i] >> \o SkipEmptyAndDuplicates(seq, i + 1, seen \cup {seq[i]})

\* The fallback payloads in their order: without created, without tags,
\* without both.
ExpectedFallbacks(patch_payload) ==
    SkipEmptyAndDuplicates(<< Without(patch_payload, {"created"}),
                              Without(patch_payload, {"tags"}),
                              Without(patch_payload, {"created", "tags"}) >>,
                           1, {patch_payload})

\* One payload per present field, in the order document_type, correspondent,
\* storage_path, created, tags.
ExpectedSingles(patch_payload) ==
    LET order == << "document_type", "correspondent", "storage_path", "created", "tags" >>
        present == SelectSeq(order, LAMBDA k : k \in DOMAIN patch_payload)
    IN  [i \in 1 .. Len(present) |-> Restrict(patch_payload, {present[i]})]

\* The position of the first payload of seq the store accepts, 0 if none.
FirstAccepted(seq, srv) ==
    IF \A i \in 1 .. Len(seq) : RequestFails(seq[i], srv)
    THEN 0
    ELSE CHOOSE i \in 1 .. Len(seq) :
            /\ ~RequestFails(seq[i], srv)
            /\ \A j \in 1 .. (i - 1) : RequestFails(seq[j], srv)

\* C20: update_document sends the full patch first; only if that failed, the
\* fallback payloads in their order up to and including the first accepted
\* one; only if all of those failed, one PATCH per present field in the
\* fixed field order; and it raises only if no request was accepted.
C20_PayloadOrder ==
    call.pc = "done" =>
        LET p == call.patch_payload
            srv == call.srv
            sent == call.outcome.sent
            fb == ExpectedFallbacks(p)
        IN  /\ Len(sent) >= 1 /\ sent[1] = p
            /\ ~RequestFails(p, srv) => sent = << p >>
            /\ Len(sent) > 1 =>
                  IF FirstAccepted(fb, srv) # 0
                  THEN sent = << p >> \o SubSeq(fb, 1, FirstAccepted(fb, srv))
                  ELSE sent = << p >> \o fb \o ExpectedSingles(p)
            /\ ~call.outcome.ok => \A i \in 1 .. Len(sent) : RequestFails(sent[i], srv)
            /\ call.outcome.ok => \E i \in 1 .. Len(sent) : ~RequestFails(sent[i], srv)
            /\ (RequestFails(p, srv) /\ srv.status = 500) =>
                  /\ Len(sent) > 1 \/ (fb = << >> /\ ExpectedSingles(p) = << >>)

\* A patch with all five fields whose full form and three fallbacks are
\* refused, and of whose single-field patches some are accepted.
C20_Witness ==
    /\ call.pc = "done"
    /\ DOMAIN call.patch_payload = Fields
    /\ Len(call.outcome.sent) = 9
    /\ call.outcome.ok
    /\ RequestFails(call.outcome.sent[5], call.srv)
    /\ ~RequestFails(call.outcome.sent[6], call.srv)

\* The configuration file is missing, is invalid YAML or lacks a required field.
ConfigurationError(file) ==
    \/ ~file.exists
    \/ file.yaml = "invalid"
    \/ file.yaml \in {"empty", "list"}
    \/ file.present # RequiredKeys

\* C21: main returns 2 when the configuration file is missing, is invalid
\* YAML or lacks a required field, without calling process_documents (so
\* before any network request); it returns 1 when process_documents raises;
\* it returns 0 in every other case.
C21_ExitCodes ==
    call.pc = "done" =>
        /\ call.outcome.returned
        /\ call.outcome.code =
              (IF ConfigurationError(call.file) THEN 2
               ELSE IF call.process # "returned" THEN 1
               ELSE 0)
        /\ ConfigurationError(call.file) => ~call.outcome.processCalled

\* The precheck of the current run was enabled and its probe was answered.
PrecheckAnswered ==
    /\ runs > 0
    /\ cfg.enable_token_precheck
    /\ ~hist.probe.fails

\* C22: with the token precheck enabled and fewer remaining tokens reported
\* than min_remaining_tokens, the run aborts with AiClassificationError
\* before any request to the document store and before any document is
\* scanned or classified; with the header absent the run goes on to the
\* store.
C22_TokenPrecheck ==
    /\ (PrecheckAnswered /\ hist.probe.header = "number"
            /\ hist.probe.remaining < cfg.min_remaining_tokens) =>
          /\ hist.preflight = "AiClassificationError"
          /\ hist.ended = "raised"
          /\ pc = "idle"
          /\ hist.storeRequests = 0
          /\ hist.prologuePosts = 0
          /\ ~Stepped
          /\ counters.scanned = 0
    /\ (PrecheckAnswered /\ hist.probe.header = "absent") =>
          /\ hist.preflight = "ok"
          /\ hist.storeRequests >= StartupRequests

\* A run aborted by the precheck after an earlier run that was let through.
C22_Witness ==
    /\ runs = 2
    /\ PrecheckAnswered
    /\ hist.probe.header = "number"
    /\ hist.probe.remaining < cfg.min_remaining_tokens
    /\ hist.ended = "raised"
    /\ fileFailed # << >>

\* The documents on the first n pages of the chain.
RECURSIVE DocumentsOnPages(_, _)
DocumentsOnPages(pages, n) ==
    IF n = 0 THEN 0 ELSE pages[n] + DocumentsOnPages(pages, n - 1)

\* At most limit documents are yielded, none when limit <= 0; a page is
\* requested only while fewer than limit documents were yielded and the
\* page before it had a next link.
IterWithinLimit ==
    /\ call.yielded <= Max(call.limit, 0)
    /\ call.requests <= Len(call.pages)
    /\ call.limit <= 0 => call.requests = 0
    /\ call.requests >= 1 => DocumentsOnPages(call.pages, call.requests - 1) < call.limit
    /\ call.pc = "done" =>
          call.yielded = (IF call.limit <= 0 THEN 0
                          ELSE IF DocumentsOnPages(call.pages, Len(call.pages)) < call.limit
                          THEN DocumentsOnPages(call.pages, Len(call.pages))
                          ELSE call.limit)

\* C23: iter_documents yields at most limit documents, requests no further
\* page once limit documents are yielded or a page has no next link, yields
\* nothing when limit <= 0, and comes to an end on every finite chain.
C23_IterDocuments == [](IterWithinLimit) /\ <>(call.pc = "done")

\* The limit was reached in the middle of the second of three pages.
C23_Witness ==
    /\ call.pc = "done"
    /\ Len(call.pages) = 3
    /\ call.pages[2] = 2
    /\ call.limit = 3
    /\ call.yielded = 3
    /\ call.requests = 2

\* C24: filter_unchanged_patch_fields is idempotent for a fixed document, and
\* its output holds only fields of its input, with their values unchanged.
C24_FilterIdempotent ==
    /\ call.pc \in {"once", "twice"} =>
          /\ DOMAIN call.once \subseteq DOMAIN call.patch_payload
          /\ \A k \in DOMAIN call.once : call.once[k] = call.patch_payload[k]
    /\ call.pc = "twice" =>
          /\ DOMAIN call.twice = DOMAIN call.once
          /\ \A k \in DOMAIN call.twice : call.twice[k] = call.once[k]

\* A payload of which the filter removed the unchanged date (given in the
\* other notation) and kept the changed tags, filtered a second time.
C24_Witness ==
    /\ call.pc = "twice"
    /\ DOMAIN call.patch_payload = Fields
    /\ "created" \notin DOMAIN call.once
    /\ call.patch_payload.created # call.document.created
    /\ "tags" \in DOMAIN call.once

\* C25: under every interleaving of async_run calls at most one sorter
\* subprocess runs at a time; a forced call made while a run is active waits
\* for the lock and starts its subprocess only after that run has finished.
C25_OneSubprocess ==
    /\ Cardinality(call.subprocesses) <= 1
    /\ Cardinality({t \in Callers : HoldsLock(call, t)}) <= 1
    /\ \A t \in Callers :
          call.tasks[t].force /\ call.tasks[t].active_at_call =>
             /\ call.finished = call.tasks[t].finished_at_call =>
                   call.tasks[t].pc = "wait_lock"
             /\ t \in call.subprocesses =>
                   call.finished > call.tasks[t].finished_at_call

\* The subprocess of a forced call that was made during another run.
C25_Witness ==
    \E t \in Callers :
       /\ t \in call.subprocesses
       /\ call.tasks[t].force
       /\ call.tasks[t].active_at_call
       /\ call.finished > call.tasks[t].finished_at_call

\* C26: a non-forced async_run call made before last_finished +
\* cooldown_seconds starts no subprocess and returns the status 'cooldown';
\* last_finished is set at the end of every run that acquired the lock.
C26_CooldownGate ==
    \A t \in Callers :
       /\ ~call.tasks[t].force /\ call.tasks[t].cooldown_at_call =>
             /\ call.tasks[t].pc = "returned"
             /\ call.tasks[t].status = "cooldown"
             /\ ~call.tasks[t].acquired
       /\ call.tasks[t].acquired /\ call.tasks[t].pc \in {"returned", "raised"} =>
             /\ call.has_finished
             /\ call.last_finished >= call.tasks[t].ended_at

\* C27: ensure_entity_id with create_missing false sends nothing to the
\* store and leaves the mapping unchanged; it returns the mapped id when the
\* trimmed, lower-cased label is in the mapping and None otherwise, and it
\* does not raise.
C27_ResolveWithoutCreate ==
    call.pc = "done" /\ ~call.create_missing =>
       /\ call.outcome.posts = 0
       /\ call.outcome.mapping = call.mapping
       /\ ~call.outcome.raised
       /\ call.outcome.id = (IF call.name.is = "text" /\ Norm(call.name.text) \in call.mapping
                             THEN EntityId(Norm(call.name.text)) ELSE NoId)

\* Outside dry run the iteration counted its document as failed.
FailureOutsideDryRun == Stepped /\ ~cfg.dry_run /\ last.errors # << >>

\* What stays of the failure whatever becomes of the annotation: failed went
\* up by one, the quarantine record written for the document is in place,
\* and the scan goes on.
FailureOnlyLogged ==
    /\ counters.failed = last.counters.failed + 1
    /\ last.tsWritten =>
          /\ last.doc \in DOMAIN failed_docs_until
          /\ failed_docs_until[last.doc] = last.ts
    /\ hist.ended # "raised"
    /\ pos = last.pos + 1
    /\ pc = "scan" \/ hist.ended = "returned"

\* The iteration sent a PATCH after those of update_document.
ErrorTagPatchSent == Len(last.sent) > Len(last.updateSent)

\* C28 as stated: outside dry run every document-level failure is followed
\* by an error-tag PATCH and an error-note POST, whose failure is only logged.
C28_AnnotationAttempted ==
    FailureOutsideDryRun =>
        /\ ErrorTagPatchSent
        /\ last.notes = 1
        /\ FailureOnlyLogged

\* C28, amended: outside dry run, after a failure of the classification or
\* of the write-back that follows it, the error-note POST is attempted, and
\* the error-tag PATCH is attempted exactly when it changes the document's
\* tags; the failed retry of a cached patch is not annotated.  Whether or not
\* these requests fail, failed has gone up by exactly one, the quarantine
\* record is kept and the scan continues.
C28_AnnotationBestEffort ==
    FailureOutsideDryRun =>
        /\ last.classifierCalled =>
              /\ last.notes = 1
              /\ ErrorTagPatchSent <=>
                    (last.docBefore.tags \ {tagIds.neu}) \cup {tagIds.error, tagIds.ki}
                       # last.docBefore.tags
        /\ ~last.classifierCalled => last.notes = 0 /\ ~ErrorTagPatchSent
        /\ FailureOnlyLogged

\* A failed document whose error-tag PATCH and error-note POST both failed,
\* with its quarantine record written and the second document still due.
C28_Witness ==
    /\ FailureOutsideDryRun
    /\ last.classifierCalled
    /\ last.markFailed
    /\ last.noteFailed
    /\ last.tsWritten
    /\ InLoop

\* C29: the quarantine file a dry run saves at its end holds no record for a
\* document that had none in the file before the run, and the saved patch
\* cache is the one the file held before.
C29_DryRunKeepsQuarantineFiles ==
    [][(pc = "scan" /\ hist'.ended = "returned" /\ cfg.dry_run
            /\ cfg.quarantine_failed_documents) =>
          /\ DOMAIN fileFailed' \subseteq DOMAIN fileFailed
          /\ fileCache' = fileCache]_vars

\* C30: update_document sends a fallback or single-field request only when
\* the error of the failed full patch reports HTTP 500; after any other
\* failure of the full patch (HTTP 400, a transport error) it raises once
\* the retries are used up, having sent nothing but the full patch.
C30_FallbackOnlyOnHttp500 ==
    call.pc = "done" =>
        /\ Len(call.outcome.sent) > 1 =>
              call.full.raised /\ call.full.last_error = "HTTP 500"
        /\ (call.full.raised /\ call.full.last_error # "HTTP 500") =>
              /\ ~call.outcome.ok
              /\ call.outcome.sent = << call.patch_payload >>
              /\ call.full.attempts = DefaultRetries

\* The full patch failed with HTTP 500 twice and then with HTTP 400: the
\* call raised without a further request, though the store would have
\* accepted the patch without its tags.
C30_Witness ==
    /\ call.pc = "done"
    /\ call.answers[1].status = 500
    /\ call.answers[2].status = 500
    /\ call.answers[3].status = 400
    /\ "tags" \in DOMAIN call.patch_payload
    /\ call.srv.bad = {"tags"}
    /\ ~call.outcome.ok
    /\ call.outcome.sent = << call.patch_payload >>

\* C31: whenever the final patch the classification path hands to
\* update_document has a tags field, that field holds every tag the document
\* has at that time except the #NEU tag.
C31_ExistingTagsKept ==
    \A i \in 1 .. Len(last.updateArgs) :
        (last.classifierCalled /\ "tags" \in DOMAIN last.updateArgs[i]) =>
            (last.docBefore.tags \ {tagIds.neu}) \subseteq last.updateArgs[i]["tags"]

\* C32: in the state saved at the end of a completed run, every document id
\* that has a cached patch also has a retry-not-before timestamp.
C32_CachedPatchHasTimestamp ==
    (hist.saved /\ hist.ended = "returned") =>
        DOMAIN fileCache \subseteq DOMAIN fileFailed

\* C33: at the end of every completed run the number of scanned documents is
\* the sum of the updated, skipped and failed documents.
C33_CountersAddUp ==
    RunReturned =>
        counters.scanned = counters.updated + counters.skipped + counters.failed

C33_Witness ==
    /\ RunReturned
    /\ pc = "idle"
    /\ counters.scanned = 2
    /\ counters.skipped = 1
    /\ counters.failed = 1

\* C34: within one run at most one successful creation request is made per
\* normalised label; a resolve of a label whose creation succeeded earlier in
\* the run returns the id of that creation without a store call, and a failed
\* creation leaves the mapping unchanged.
C34_CreatedOnce ==
    call.pc = "resolving" =>
        /\ \A i, j \in 1 .. Len(call.requests) :
              (/\ call.requests[i].ok
               /\ call.requests[j].ok
               /\ call.requests[i].key = call.requests[j].key) => i = j
        /\ \A i \in 1 .. Len(call.requests) :
              (/\ call.requests[i].ok
               /\ call.requests[i].key = Norm(call.name)
               /\ call.requests[i].key \in call.before) =>
                  /\ call.outcome.posts = 0
                  /\ call.outcome.id = call.requests[i].id
                  /\ call.mapping = call.before
        /\ call.outcome.raised => call.mapping = call.before

C34_Witness ==
    /\ call.pc = "resolving"
    /\ call.requests = << [key |-> "a", ok |-> FALSE, id |-> NoId],
                          [key |-> "a", ok |-> TRUE, id |-> AId] >>
    /\ call.name = " a "
    /\ "a" \in call.before
    /\ call.outcome.id = AId

\* C35: every step of the document loop adds to the run's token totals the
\* usage of the classifier call when that call returned a valid result
\* (whatever happens to the document afterwards) and leaves the totals alone
\* otherwise (cached-patch retry, quarantine skip, skip rules, failed call).
C35_UsageOfValidCalls ==
    [][(pc = "scan" /\ pos' = pos + 1) =>
          run_tokens' = IF last'.classifierCalled /\ classify(last'.resp) = "ok"
                        THEN AddUsage(run_tokens, extract_usage(last'.usage))
                        ELSE run_tokens]_vars

\* A run counted the usage of a document skipped for low confidence after the
\* usage of a document whose write-back failed.
C35_Witness ==
    /\ pc = "scan"
    /\ last.classifierCalled
    /\ last.doc = 2
    /\ classify(last.resp) = "ok"
    /\ Predictions[last.resp].confidence < ConfidenceThreshold
    /\ counters.skipped = 1
    /\ counters.failed = 1
    /\ last.usage.total_tokens = 3
    /\ run_tokens.total_tokens = 5

\* C36: under the all-documents override with quarantine enabled, a scanned
\* document with a cached patch is retried without the classifier, a document
\* in quarantine is skipped without the classifier, and every other document
\* is classified whatever its tags and type are.
C36_OverrideKeepsQuarantine ==
    (Stepped /\ cfg.process_all_documents /\ cfg.quarantine_failed_documents) =>
        /\ last.cachedBefore =>
              /\ ~last.classifierCalled
              /\ cfg.dry_run \/ last.updateArgs = << last.cachedPatch >>
        /\ (~last.cachedBefore /\ last.tsBefore > last.at) =>
              /\ ~last.classifierCalled
              /\ last.updateArgs = << >>
              /\ counters.skipped = last.counters.skipped + 1
        /\ (~last.cachedBefore /\ last.tsBefore <= last.at) => last.classifierCalled

\* Under the override a quarantined document that the tag filter and the
\* heuristic would both skip was skipped for its quarantine.
C36_Witness ==
    /\ Stepped
    /\ cfg.process_all_documents
    /\ cfg.process_only_tag = "A"
    /\ cfg.quarantine_failed_documents
    /\ AId \notin last.docBefore.tags
    /\ ~should_process_document(last.docBefore)
    /\ ~last.cachedBefore
    /\ last.tsBefore > last.at
    /\ ~last.classifierCalled

\* C37: with a tag filter that the store knows and the override off, a
\* scanned document that has no cached patch and is not in quarantine is
\* classified exactly when it carries the filter tag, whatever its type and
\* other tags are.
C37_FilterModeClassifiesTagged ==
    (/\ Stepped
     /\ ~cfg.process_all_documents
     /\ tagIds.only # NoId
     /\ ~(cfg.quarantine_failed_documents /\ last.cachedBefore)
     /\ ~(cfg.quarantine_failed_documents /\ last.tsBefore > last.at)) =>
        (last.classifierCalled <=> tagIds.only \in last.docBefore.tags)

\* A document that has a type and two tags, one of them the filter tag, was
\* classified in the filter mode.
C37_Witness ==
    /\ Stepped
    /\ ~cfg.process_all_documents
    /\ tagIds.only = AId
    /\ last.docBefore.document_type # NoId
    /\ last.docBefore.tags = {KiId, AId}
    /\ ~should_process_document(last.docBefore)
    /\ last.classifierCalled

\* C38: while a run is active on the runner (running is True and the run has
\* not yet reached its end, where it sets its final status), last_status is
\* "running".
C38_StatusRunningWhileActive ==
    (/\ call.running
     /\ \E t \in Callers : call.tasks[t].pc \in {"prepare", "communicate"}) =>
        call.last_status = "running"

\* C39: every step of a run that does not complete it, the step that ends
\* it by an escaping exception included, leaves the quarantine file, the
\* patch cache file and the metrics file as they are; so a run that ends by
\* an exception leaves the three files as they were before the run.
C39_EscapeLeavesFiles ==
    [][(pc' = "scan" \/ (hist'.ended = "raised" /\ (pc = "scan" \/ runs' # runs))) =>
          UNCHANGED << fileFailed, fileCache, fileMetrics >>]_vars

\* A run ended by a failed page fetch after a document was quarantined and
\* tokens were counted in memory; none of it reached the files.
C39_Witness ==
    /\ hist.ended = "raised"
    /\ pc = "idle"
    /\ pos = 2
    /\ failed_docs_until # fileFailed
    /\ run_tokens.total_tokens > 0
    /\ fileMetrics = NoMetricsFile

====
